---- MODULE Spec2Model ----
(***************************************************************************)
(* State-machine models of the polling loops, orchestration scripts and    *)
(* Lambda handlers of kr-tech-blog-sample-code.  Every script of the       *)
(* repository is an independent program, so every program has its own      *)
(* variables, its own initial predicate and its own specification; the     *)
(* variables of the programs a specification does not run stay at their    *)
(* idle values.  AWS (Athena, RDS, OpenSearch, Bedrock) is the             *)
(* environment: what a call returns, and whether it raises, is chosen      *)
(* nondeterministically.                                                   *)
(***************************************************************************)
EXTENDS Integers, Sequences, FiniteSets, TLC

VARIABLES
    \* execute_athena_query (bedrock_tracker_cli.py, bedrock_tracker.py)
    ea_tracker,         \* the class whose method runs
    ea_pc,              \* position in the method
    ea_i,               \* the loop variable of "for i in range(max_wait)"
    ea_polls,           \* get_query_execution calls issued for the query
    ea_status,          \* the last State a poll returned ("none" before)
    ea_seenTerminal,    \* a poll has returned SUCCEEDED, FAILED or CANCELLED
    ea_pollAfterTerminal, \* a poll was issued after that
    ea_seenSucceeded,   \* a poll has returned SUCCEEDED
    ea_resultsCalled,   \* get_query_results was called
    ea_cause,           \* why the method left the happy path
    ea_ret,             \* what the caller gets
    \* query_athena_table (database_assistant.py)
    qa_pc,              \* position in the function
    qa_polls,           \* get_query_execution calls issued, counted up to QaPollsTracked
    qa_state,           \* the last State a poll returned ("none" before)
    qa_seenTerminal,    \* a poll has returned SUCCEEDED, FAILED or CANCELLED
    qa_pollAfterTerminal, \* a poll was issued after that
    qa_ret,             \* what the caller gets
    \* bluegreen_switchover.py
    sw_pc,              \* position in the script
    sw_map,             \* the keys of deployment_cluster_map, in dict order
    sw_idx,             \* position of the for loop in sw_map
    sw_status,          \* per deployment: what its describe call gave
    sw_switchCalls,     \* per deployment: switchover calls issued
    sw_handled,         \* deployments whose loop iteration has ended
    \* bluegreen_delete_old.py, and the RDS resources it works on
    do_pc,              \* position in main and the functions it calls
    do_cluster_name,    \* args.cluster_name (<<>> when not given)
    do_rdsDeployments,  \* RDS: per deployment "absent", "present", "deleting"
    do_rdsClusters,     \* RDS: per cluster identifier "absent", "present", "deleted"
    do_rdsInstances,    \* RDS: per instance "absent", "present", "deleting"
    do_deployments,     \* response["BlueGreenDeployments"]
    do_depIdx,          \* position of the deployments loop
    do_old_clusters,    \* what get_old_clusters returned
    do_clIdx,           \* position of main's loop over old_clusters
    do_members,         \* DBClusterMembers of the cluster being deleted
    do_memIdx,          \* position of delete_cluster's loops over the members
    do_deletedDeployments, \* deployments delete_blue_green_deployment took
    do_deletedInstances,   \* instances delete_db_instance took
    do_clusterDeleteLog, \* delete_db_cluster calls, with the members then in RDS
    \* multi-account-bluegreen-deployment.py
    ma_pc,              \* position in main and create_blue_green_deployment
    ma_account,         \* position of main's loop over the accounts
    ma_clusters_to_upgrade, \* the identifiers that passed the filter
    ma_idx,             \* position of the creation loop
    ma_created,         \* per account: create_blue_green_deployment RDS calls that returned
    ma_printed,         \* accounts whose count main has printed
    ma_upgraded_clusters, \* per account: the count main printed
    \* generate_judgments.py: handler
    gj_pc,              \* position in the handler
    gj_event,           \* the Lambda event: queries, extractResult.queries, limit
    gj_queries,         \* queries, after the fallback to extractResult
    gj_queries_to_process, \* queries[:limit]
    gj_qidx,            \* position of the loop over queries_to_process
    gj_documents,       \* how many documents search_documents returned
    gj_didx,            \* position of the loop over the documents
    gj_searched,        \* positions of the queries search_documents was called for
    gj_judged,          \* positions of the queries invoke_model was called for
    gj_all_judgments,   \* all_judgments
    gj_processed_queries, \* processed_queries
    gj_indexed,         \* the documents written to the judgments index
    gj_result,          \* what the handler returns
    \* prepare_ltr_data.py: format_for_ranklib
    fr_pc,              \* position in the function
    fr_data,            \* the argument data
    fr_idx,             \* position of the loop over data
    fr_lines,           \* lines
    fr_query_id_map,    \* query_id_map
    fr_current_qid,     \* current_qid
    fr_output,          \* the text returned, as its lines and line breaks
    \* prepare_ltr_data.py: handler
    pp_pc,              \* position in the handler
    pp_data_bucket,     \* os.environ.get('DATA_BUCKET')
    pp_judgments,       \* what fetch_judgments returned
    pp_ranklib_data,    \* ranklib_data
    pp_s3_uri,          \* s3_uri
    pp_result,          \* what the handler returns
    \* train_ltr_model.py: handler, and the S3 object it reads
    tl_s3object,        \* S3: the training file prepare_ltr_data wrote
    tl_via,             \* how the handler was invoked: "direct", "event", "ltrDataResult"
    tl_event,           \* the Lambda event
    tl_s3_uri,          \* s3_uri
    tl_pc,              \* position in the handler and the functions it calls
    tl_calls,           \* the OpenSearch and S3 requests of this invocation, in order
    tl_training_data,   \* training_data
    tl_num_features,    \* num_features of upload_model
    tl_um_ret,          \* what upload_model returned ("none" before)
    tl_ret,             \* what the handler returns
    tl_bodies,          \* every body POSTed to _createmodel so far
    tl_uploadedCounts,  \* the first two num_features values bodies were built under
    \* setup_opensearch.py: handler, and the indices of the OpenSearch domain
    so_pc,              \* position in the handler and the functions it calls
    so_request_type,    \* event.get('RequestType', 'Create')
    os_exists,          \* OpenSearch: per index, whether it exists
    so_mapped,          \* map_iam_roles returned True
    so_idx,             \* position of create_indices' loop over the indices
    so_results,         \* results of create_indices, per index ("none" before)
    so_sample_data,     \* whether add_sample_data indexed every document
    so_ret,             \* what the handler returns, or "raise"
    \* QCliAthenaTracker.estimate_tokens (bedrock_tracker_cli.py, bedrock_tracker.py)
    et_pc,              \* "run" while the caller asks for estimates
    et_summary,         \* the argument summary
    et_results,         \* per estimation_type asked for: the dict returned
    \* AgentTable (create_agent_table.py) and query_agents_by_score (query_examples.py)
    ag_pc,              \* "load" while items are put, "done" after the query
    ag_table,           \* AgentTable: per PK, the item stored (present or not)
    ag_limit,           \* the argument limit
    ag_items,           \* response["Items"]: the PKs, in the order returned
    \* QCliS3LogAnalyzer.analyze_usage (qcli_s3_analyzer.py)
    au_pc,              \* position in the method
    au_user_pattern,    \* the argument user_pattern (<<>> for None)
    au_log_files,       \* len(log_files)
    au_sample_files,    \* len(sample_files)
    au_records,         \* the records parse_log_file gave for the sample files
    au_sampled,         \* stats before the scaling
    au_stats            \* the stats returned

eaVars == <<ea_tracker, ea_pc, ea_i, ea_polls, ea_status, ea_seenTerminal,
            ea_pollAfterTerminal, ea_seenSucceeded, ea_resultsCalled,
            ea_cause, ea_ret>>

qaVars == <<qa_pc, qa_polls, qa_state, qa_seenTerminal, qa_pollAfterTerminal,
            qa_ret>>

swVars == <<sw_pc, sw_map, sw_idx, sw_status, sw_switchCalls, sw_handled>>

doVars == <<do_pc, do_cluster_name, do_rdsDeployments, do_rdsClusters,
             do_rdsInstances, do_deployments, do_depIdx, do_old_clusters,
             do_clIdx, do_members, do_memIdx, do_deletedDeployments,
             do_deletedInstances, do_clusterDeleteLog>>

maVars == <<ma_pc, ma_account, ma_clusters_to_upgrade, ma_idx, ma_created,
             ma_printed, ma_upgraded_clusters>>

gjVars == <<gj_pc, gj_event, gj_queries, gj_queries_to_process, gj_qidx,
             gj_documents, gj_didx, gj_searched, gj_judged,
             gj_all_judgments, gj_processed_queries, gj_indexed, gj_result>>

frVars == <<fr_pc, fr_data, fr_idx, fr_lines, fr_query_id_map,
             fr_current_qid, fr_output>>

tlVars == <<pp_pc, pp_data_bucket, pp_judgments, pp_ranklib_data, pp_s3_uri,
             pp_result, tl_s3object, tl_via, tl_event, tl_s3_uri, tl_pc,
             tl_calls, tl_training_data, tl_num_features, tl_um_ret, tl_ret,
             tl_bodies, tl_uploadedCounts>>

soVars == <<so_pc, so_request_type, os_exists, so_mapped, so_idx,
             so_results, so_sample_data, so_ret>>

etVars == <<et_pc, et_summary, et_results>>

agVars == <<ag_pc, ag_table, ag_limit, ag_items>>

auVars == <<au_pc, au_user_pattern, au_log_files, au_sample_files,
             au_records, au_sampled, au_stats>>

vars == <<eaVars, qaVars, swVars, doVars, maVars, gjVars, frVars, tlVars, soVars, etVars, agVars, auVars>>

Min(a, b) == IF a < b THEN a ELSE b

Max(a, b) == IF a > b THEN a ELSE b

(***************************************************************************)
(* The idle values of each program's variables, and what each program      *)
(* leaves alone.                                                           *)
(***************************************************************************)
EA_Idle ==
    /\ ea_tracker = "none"
    /\ ea_pc = "idle"
    /\ ea_i = 0
    /\ ea_polls = 0
    /\ ea_status = "none"
    /\ ea_seenTerminal = FALSE
    /\ ea_pollAfterTerminal = FALSE
    /\ ea_seenSucceeded = FALSE
    /\ ea_resultsCalled = FALSE
    /\ ea_cause = "none"
    /\ ea_ret = "none"

QA_Idle ==
    /\ qa_pc = "idle"
    /\ qa_polls = 0
    /\ qa_state = "none"
    /\ qa_seenTerminal = FALSE
    /\ qa_pollAfterTerminal = FALSE
    /\ qa_ret = "none"

SW_Idle ==
    /\ sw_pc = "idle"
    /\ sw_map = <<>>
    /\ sw_idx = 1
    /\ sw_status = <<>>
    /\ sw_switchCalls = <<>>
    /\ sw_handled = {}

DO_Idle ==
    /\ do_pc = "idle"
    /\ do_cluster_name = <<>>
    /\ do_rdsDeployments = <<>>
    /\ do_rdsClusters = <<>>
    /\ do_rdsInstances = <<>>
    /\ do_deployments = <<>>
    /\ do_depIdx = 1
    /\ do_old_clusters = <<>>
    /\ do_clIdx = 1
    /\ do_members = <<>>
    /\ do_memIdx = 1
    /\ do_deletedDeployments = {}
    /\ do_deletedInstances = {}
    /\ do_clusterDeleteLog = {}

MA_Idle ==
    /\ ma_pc = "idle"
    /\ ma_account = 1
    /\ ma_clusters_to_upgrade = <<>>
    /\ ma_idx = 1
    /\ ma_created = <<>>
    /\ ma_printed = {}
    /\ ma_upgraded_clusters = <<>>

GJ_Idle ==
    /\ gj_pc = "idle"
    /\ gj_event = <<>>
    /\ gj_queries = <<>>
    /\ gj_queries_to_process = <<>>
    /\ gj_qidx = 1
    /\ gj_documents = 0
    /\ gj_didx = 1
    /\ gj_searched = {}
    /\ gj_judged = {}
    /\ gj_all_judgments = <<>>
    /\ gj_processed_queries = 0
    /\ gj_indexed = {}
    /\ gj_result = <<>>

FR_Idle ==
    /\ fr_pc = "idle"
    /\ fr_data = <<>>
    /\ fr_idx = 1
    /\ fr_lines = <<>>
    /\ fr_query_id_map = <<>>
    /\ fr_current_qid = 0
    /\ fr_output = <<>>

\* A Python value that is None, a string, or a missing dict key
PyNone == [type |-> "None", val |-> <<>>]
PyAbsent == [type |-> "absent", val |-> <<>>]
PyStr(s) == [type |-> "str", val |-> s]

TL_Idle ==
    /\ pp_pc = "idle"
    /\ pp_data_bucket = PyNone
    /\ pp_judgments = <<>>
    /\ pp_ranklib_data = <<>>
    /\ pp_s3_uri = PyNone
    /\ pp_result = [kind |-> "none", success |-> FALSE, s3Uri |-> PyAbsent,
                    recordCount |-> 0]
    /\ tl_s3object = [exists |-> FALSE, body |-> <<>>]
    /\ tl_via = "direct"
    /\ tl_event = [s3Uri |-> PyAbsent, ltrDataResult |-> PyAbsent]
    /\ tl_s3_uri = PyNone
    /\ tl_pc = "idle"
    /\ tl_calls = <<>>
    /\ tl_training_data = <<>>
    /\ tl_num_features = 0
    /\ tl_um_ret = "none"
    /\ tl_ret = [kind |-> "none", success |-> FALSE, message |-> ""]
    /\ tl_bodies = {}
    /\ tl_uploadedCounts = {}

SO_Idle ==
    /\ so_pc = "idle"
    /\ so_request_type = "none"
    /\ os_exists = <<>>
    /\ so_mapped = FALSE
    /\ so_idx = 1
    /\ so_results = <<>>
    /\ so_sample_data = "none"
    /\ so_ret = "none"

ET_Idle ==
    /\ et_pc = "idle"
    /\ et_summary = <<>>
    /\ et_results = <<>>

AG_Idle ==
    /\ ag_pc = "idle"
    /\ ag_table = <<>>
    /\ ag_limit = 0
    /\ ag_items = <<>>

\* _empty_stats(), and stats as analyze_usage initialises it
AU_empty_stats(total_log_files) ==
    [total_log_files |-> total_log_files,
     total_requests |-> 0,
     by_type |-> [t \in {"chat", "inline"} |->
                     [count |-> 0, input_tokens |-> 0, output_tokens |-> 0]],
     by_user |-> <<>>,
     total_input_tokens |-> 0,
     total_output_tokens |-> 0,
     total_tokens |-> 0]

AU_Idle ==
    /\ au_pc = "idle"
    /\ au_user_pattern = <<>>
    /\ au_log_files = 0
    /\ au_sample_files = 0
    /\ au_records = <<>>
    /\ au_sampled = AU_empty_stats(0)
    /\ au_stats = AU_empty_stats(0)

EA_Others == <<qaVars, swVars, doVars, maVars, gjVars, frVars, tlVars, soVars, etVars, agVars, auVars>>

EA_OthersIdle == QA_Idle /\ SW_Idle /\ DO_Idle /\ MA_Idle /\ GJ_Idle /\ FR_Idle /\ TL_Idle /\ SO_Idle /\ ET_Idle /\ AG_Idle /\ AU_Idle

QA_Others == <<eaVars, swVars, doVars, maVars, gjVars, frVars, tlVars, soVars, etVars, agVars, auVars>>

QA_OthersIdle == EA_Idle /\ SW_Idle /\ DO_Idle /\ MA_Idle /\ GJ_Idle /\ FR_Idle /\ TL_Idle /\ SO_Idle /\ ET_Idle /\ AG_Idle /\ AU_Idle

SW_Others == <<eaVars, qaVars, doVars, maVars, gjVars, frVars, tlVars, soVars, etVars, agVars, auVars>>

SW_OthersIdle == EA_Idle /\ QA_Idle /\ DO_Idle /\ MA_Idle /\ GJ_Idle /\ FR_Idle /\ TL_Idle /\ SO_Idle /\ ET_Idle /\ AG_Idle /\ AU_Idle

DO_Others == <<eaVars, qaVars, swVars, maVars, gjVars, frVars, tlVars, soVars, etVars, agVars, auVars>>

DO_OthersIdle == EA_Idle /\ QA_Idle /\ SW_Idle /\ MA_Idle /\ GJ_Idle /\ FR_Idle /\ TL_Idle /\ SO_Idle /\ ET_Idle /\ AG_Idle /\ AU_Idle

MA_Others == <<eaVars, qaVars, swVars, doVars, gjVars, frVars, tlVars, soVars, etVars, agVars, auVars>>

MA_OthersIdle == EA_Idle /\ QA_Idle /\ SW_Idle /\ DO_Idle /\ GJ_Idle /\ FR_Idle /\ TL_Idle /\ SO_Idle /\ ET_Idle /\ AG_Idle /\ AU_Idle

GJ_Others == <<eaVars, qaVars, swVars, doVars, maVars, frVars, tlVars, soVars, etVars, agVars, auVars>>

GJ_OthersIdle == EA_Idle /\ QA_Idle /\ SW_Idle /\ DO_Idle /\ MA_Idle /\ FR_Idle /\ TL_Idle /\ SO_Idle /\ ET_Idle /\ AG_Idle /\ AU_Idle

FR_Others == <<eaVars, qaVars, swVars, doVars, maVars, gjVars, tlVars, soVars, etVars, agVars, auVars>>

FR_OthersIdle == EA_Idle /\ QA_Idle /\ SW_Idle /\ DO_Idle /\ MA_Idle /\ GJ_Idle /\ TL_Idle /\ SO_Idle /\ ET_Idle /\ AG_Idle /\ AU_Idle

TL_Others == <<eaVars, qaVars, swVars, doVars, maVars, gjVars, frVars, soVars, etVars, agVars, auVars>>

TL_OthersIdle == EA_Idle /\ QA_Idle /\ SW_Idle /\ DO_Idle /\ MA_Idle /\ GJ_Idle /\ FR_Idle /\ SO_Idle /\ ET_Idle /\ AG_Idle /\ AU_Idle

SO_Others == <<eaVars, qaVars, swVars, doVars, maVars, gjVars, frVars, tlVars, etVars, agVars, auVars>>

SO_OthersIdle == EA_Idle /\ QA_Idle /\ SW_Idle /\ DO_Idle /\ MA_Idle /\ GJ_Idle /\ FR_Idle /\ TL_Idle /\ ET_Idle /\ AG_Idle /\ AU_Idle

ET_Others == <<eaVars, qaVars, swVars, doVars, maVars, gjVars, frVars, tlVars, soVars, agVars, auVars>>

ET_OthersIdle == EA_Idle /\ QA_Idle /\ SW_Idle /\ DO_Idle /\ MA_Idle /\ GJ_Idle /\ FR_Idle /\ TL_Idle /\ SO_Idle /\ AG_Idle /\ AU_Idle

AG_Others == <<eaVars, qaVars, swVars, doVars, maVars, gjVars, frVars, tlVars, soVars, etVars, auVars>>

AG_OthersIdle == EA_Idle /\ QA_Idle /\ SW_Idle /\ DO_Idle /\ MA_Idle /\ GJ_Idle /\ FR_Idle /\ TL_Idle /\ SO_Idle /\ ET_Idle /\ AU_Idle

AU_Others == <<eaVars, qaVars, swVars, doVars, maVars, gjVars, frVars, tlVars, soVars, etVars, agVars>>

AU_OthersIdle == EA_Idle /\ QA_Idle /\ SW_Idle /\ DO_Idle /\ MA_Idle /\ GJ_Idle /\ FR_Idle /\ TL_Idle /\ SO_Idle /\ ET_Idle /\ AG_Idle

(***************************************************************************)
(* Athena                                                                  *)
(***************************************************************************)
AthenaStates == {"QUEUED", "RUNNING", "SUCCEEDED", "FAILED", "CANCELLED"}

AthenaTerminal == {"SUCCEEDED", "FAILED", "CANCELLED"}

(***************************************************************************)
(* execute_athena_query: start the query, poll it at most max_wait times,  *)
(* fetch the results; one try/except around all of it.                     *)
(***************************************************************************)
Trackers == {"cli.BedrockAthenaTracker", "cli.QCliAthenaTracker",
             "BedrockAthenaTracker", "QCliAthenaTracker"}

max_wait == 60

\* A loop test that forgets CANCELLED.
EA_IsFailedOnlyFailed(status) == status = "FAILED"

\* elif status in ['FAILED', 'CANCELLED']: raise
EA_IsFailed(status) == status \in {"FAILED", "CANCELLED"}

\* A loop without its else clause: falls through to get_query_results.
EA_ExhaustedFallsThrough == "results"

\* for ... else: raise Exception("Query timeout")
EA_Exhausted == "except"

\* except Exception as e: ... return pd.DataFrame()
EA_Except(cause) ==
    /\ ea_pc' = "done"
    /\ ea_cause' = cause
    /\ ea_ret' = "empty"

EA_Init ==
    /\ EA_OthersIdle
    /\ ea_tracker \in Trackers
    /\ ea_pc = "start"
    /\ ea_i = 0
    /\ ea_polls = 0
    /\ ea_status = "none"
    /\ ea_seenTerminal = FALSE
    /\ ea_pollAfterTerminal = FALSE
    /\ ea_seenSucceeded = FALSE
    /\ ea_resultsCalled = FALSE
    /\ ea_cause = "none"
    /\ ea_ret = "none"

\* response = self.athena.start_query_execution(...)
EA_StartQuery ==
    /\ UNCHANGED EA_Others
    /\ ea_pc = "start"
    /\ \E raised \in BOOLEAN :
         IF raised
         THEN EA_Except("start_raised")
         ELSE /\ ea_pc' = "loop"
              /\ UNCHANGED <<ea_cause, ea_ret>>
    /\ UNCHANGED <<ea_tracker, ea_i, ea_polls, ea_status, ea_seenTerminal,
                   ea_pollAfterTerminal, ea_seenSucceeded, ea_resultsCalled>>

\* One iteration of the for loop: get_query_execution, the tests, the sleep.
EA_Poll ==
    /\ UNCHANGED EA_Others
    /\ ea_pc = "loop"
    /\ ea_i < max_wait
    /\ ea_polls' = ea_polls + 1
    /\ ea_pollAfterTerminal' = (ea_pollAfterTerminal \/ ea_seenTerminal)
    /\ \/ \* get_query_execution raises
          /\ EA_Except("poll_raised")
          /\ UNCHANGED <<ea_i, ea_status, ea_seenTerminal, ea_seenSucceeded>>
       \/ \E status \in AthenaStates :
            /\ ea_status' = status
            /\ ea_seenTerminal' = (ea_seenTerminal \/ status \in AthenaTerminal)
            /\ ea_seenSucceeded' = (ea_seenSucceeded \/ status = "SUCCEEDED")
            /\ IF status = "SUCCEEDED"
               THEN /\ ea_pc' = "results"
                    /\ UNCHANGED <<ea_i, ea_cause, ea_ret>>
               ELSE IF EA_IsFailed(status)
               THEN /\ EA_Except("query_failed")
                    /\ UNCHANGED ea_i
               ELSE /\ ea_i' = ea_i + 1
                    /\ UNCHANGED <<ea_pc, ea_cause, ea_ret>>
    /\ UNCHANGED <<ea_tracker, ea_resultsCalled>>

\* range(max_wait) is exhausted without a break
EA_LoopExhausted ==
    /\ UNCHANGED EA_Others
    /\ ea_pc = "loop"
    /\ ea_i >= max_wait
    /\ IF EA_Exhausted = "except"
       THEN EA_Except("timeout")
       ELSE /\ ea_pc' = "results"
            /\ UNCHANGED <<ea_cause, ea_ret>>
    /\ UNCHANGED <<ea_tracker, ea_i, ea_polls, ea_status, ea_seenTerminal,
                   ea_pollAfterTerminal, ea_seenSucceeded, ea_resultsCalled>>

\* result_response = self.athena.get_query_results(...); return df
EA_GetResults ==
    /\ UNCHANGED EA_Others
    /\ ea_pc = "results"
    /\ ea_resultsCalled' = TRUE
    /\ \E raised \in BOOLEAN :
         IF raised
         THEN EA_Except("results_raised")
         ELSE /\ ea_pc' = "done"
              /\ ea_ret' = "dataframe"
              /\ UNCHANGED ea_cause
    /\ UNCHANGED <<ea_tracker, ea_i, ea_polls, ea_status, ea_seenTerminal,
                   ea_pollAfterTerminal, ea_seenSucceeded>>

EA_Next ==
    \/ EA_StartQuery
    \/ EA_Poll
    \/ EA_LoopExhausted
    \/ EA_GetResults

\* The method runs in one thread and every call and sleep returns: a step
\* that can be taken is taken.
SpecTracker == EA_Init /\ [][EA_Next]_vars /\ WF_vars(EA_Next)

\* C1: execute_athena_query issues at most 60 get_query_execution calls per
\* query, issues none after a poll returned SUCCEEDED, FAILED or CANCELLED,
\* and returns whatever states Athena reports.
C1_BoundedPolling ==
    /\ [](ea_polls <= max_wait /\ ~ea_pollAfterTerminal)
    /\ <>(ea_pc = "done")

C1_Witness ==
    /\ ea_pc = "done"
    /\ ea_polls = max_wait
    /\ ea_cause = "timeout"
    /\ ea_status \in {"QUEUED", "RUNNING"}

\* C2: execute_athena_query returns to its caller in every case, an empty
\* DataFrame when start_query_execution raised, the query failed or was
\* cancelled, or the polls ran out; get_query_results is called only after
\* a poll returned SUCCEEDED.
C2_ErrorsReturnEmpty ==
    /\ ea_pc = "done" => ea_ret \in {"dataframe", "empty"}
    /\ ea_cause \in {"start_raised", "poll_raised", "query_failed",
                     "timeout", "results_raised"}
         => ea_pc = "done" /\ ea_ret = "empty"
    /\ ea_resultsCalled => ea_seenSucceeded
    /\ ea_ret = "dataframe" => ea_resultsCalled /\ ea_cause = "none"

C2_Witness ==
    /\ ea_pc = "done"
    /\ ea_cause = "query_failed"
    /\ ea_status = "CANCELLED"
    /\ ea_ret = "empty"
    /\ ~ea_resultsCalled

(***************************************************************************)
(* query_athena_table: the LLM writes the SQL, Athena runs it, the         *)
(* function polls in a "while True" loop until SUCCEEDED or FAILED.        *)
(***************************************************************************)
QaPollsTracked == 20

\* elif state == "FAILED": raise
QA_IsFailed(state) == state = "FAILED"

\* except Exception as e: print(...); return None
QA_Except ==
    /\ qa_pc' = "done"
    /\ qa_ret' = "None"

QA_Init ==
    /\ QA_OthersIdle
    /\ qa_pc = "start"
    /\ qa_polls = 0
    /\ qa_state = "none"
    /\ qa_seenTerminal = FALSE
    /\ qa_pollAfterTerminal = FALSE
    /\ qa_ret = "none"

\* if user_query: llm_response = ...; sql_command_match = re.search(...)
QA_AskLlm ==
    /\ UNCHANGED QA_Others
    /\ qa_pc = "start"
    /\ \E user_query \in {"", "question"}, matched \in BOOLEAN :
         IF user_query # "" /\ matched
         THEN /\ qa_pc' = "exec"
              /\ UNCHANGED qa_ret
         ELSE \* no query, or no <begin sql> ... </end sql> in the answer
              /\ qa_pc' = "done"
              /\ qa_ret' = "None"
    /\ UNCHANGED <<qa_polls, qa_state, qa_seenTerminal, qa_pollAfterTerminal>>

\* response = athena_client.start_query_execution(...)
QA_StartQuery ==
    /\ UNCHANGED QA_Others
    /\ qa_pc = "exec"
    /\ \E raised \in BOOLEAN :
         IF raised
         THEN QA_Except
         ELSE /\ qa_pc' = "loop"
              /\ UNCHANGED qa_ret
    /\ UNCHANGED <<qa_polls, qa_state, qa_seenTerminal, qa_pollAfterTerminal>>

\* One iteration of "while True": get_query_execution, the tests, the sleep.
QA_Poll ==
    /\ UNCHANGED QA_Others
    /\ qa_pc = "loop"
    /\ qa_polls' = Min(qa_polls + 1, QaPollsTracked)
    /\ qa_pollAfterTerminal' = (qa_pollAfterTerminal \/ qa_seenTerminal)
    /\ \/ \* get_query_execution raises
          /\ QA_Except
          /\ UNCHANGED <<qa_state, qa_seenTerminal>>
       \/ \E state \in AthenaStates :
            /\ qa_state' = state
            /\ qa_seenTerminal' = (qa_seenTerminal \/ state \in AthenaTerminal)
            /\ IF state = "SUCCEEDED"
               THEN /\ qa_pc' = "results"
                    /\ UNCHANGED qa_ret
               ELSE IF QA_IsFailed(state)
               THEN QA_Except
               ELSE UNCHANGED <<qa_pc, qa_ret>>

\* result = athena_client.get_query_results(...); return df.to_string(...)
QA_GetResults ==
    /\ UNCHANGED QA_Others
    /\ qa_pc = "results"
    /\ \E raised \in BOOLEAN :
         IF raised
         THEN QA_Except
         ELSE /\ qa_pc' = "done"
              /\ qa_ret' = "string"
    /\ UNCHANGED <<qa_polls, qa_state, qa_seenTerminal, qa_pollAfterTerminal>>

QA_Next ==
    \/ QA_AskLlm
    \/ QA_StartQuery
    \/ QA_Poll
    \/ QA_GetResults

SpecAssistant == QA_Init /\ [][QA_Next]_vars /\ WF_vars(QA_Next)

\* C3: query_athena_table stops polling after a fixed number of polls, and
\* issues no poll after one returned SUCCEEDED, FAILED or CANCELLED.
C3_BoundedPolling ==
    /\ qa_polls < QaPollsTracked
    /\ ~qa_pollAfterTerminal

(***************************************************************************)
(* bluegreen_switchover.py: list the blue/green deployments, then for each *)
(* describe it and switch it over when it is AVAILABLE.                    *)
(***************************************************************************)
NumDeployments == 3

Deployments == 1..NumDeployments

BlueGreenStatuses == {"PROVISIONING", "AVAILABLE", "SWITCHOVER_IN_PROGRESS",
                      "SWITCHOVER_COMPLETED"}

\* The sequences over S of length at most n.
SeqsUpTo(S, n) == UNION {[1..k -> S] : k \in 0..n}

\* The keys of {d[id]: d[name] for d in response}: each identifier once, in
\* the order of its first appearance.
RECURSIVE DictKeys(_)
DictKeys(response) ==
    IF response = <<>> THEN <<>>
    ELSE LET front == DictKeys(SubSeq(response, 1, Len(response) - 1))
             last == response[Len(response)]
         IN IF \E k \in 1..Len(front) : front[k] = last
            THEN front
            ELSE Append(front, last)

\* A test that only leaves out the deployments already switched over.
SW_MaySwitchNotCompleted(status) == status # "SWITCHOVER_COMPLETED"

\* if status == "AVAILABLE":
SW_MaySwitch(status) == status = "AVAILABLE"

SW_Init ==
    /\ SW_OthersIdle
    /\ sw_pc = "list"
    /\ sw_map = <<>>
    /\ sw_idx = 1
    /\ sw_status = [d \in Deployments |-> "none"]
    /\ sw_switchCalls = [d \in Deployments |-> 0]
    /\ sw_handled = {}

\* response = rds_client.describe_blue_green_deployments(), outside any try
SW_List ==
    /\ UNCHANGED SW_Others
    /\ sw_pc = "list"
    /\ \/ /\ sw_pc' = "crashed"
          /\ UNCHANGED sw_map
       \/ \E response \in SeqsUpTo(Deployments, NumDeployments) :
            /\ sw_map' = DictKeys(response)
            /\ sw_pc' = IF DictKeys(response) = <<>> THEN "done" ELSE "loop"
    /\ UNCHANGED <<sw_idx, sw_status, sw_switchCalls, sw_handled>>

\* status = rds_client.describe_blue_green_deployments(...)[...]["Status"]
SW_Describe ==
    /\ UNCHANGED SW_Others
    /\ sw_pc = "loop"
    /\ sw_idx <= Len(sw_map)
    /\ LET d == sw_map[sw_idx] IN
       \/ \* the call raises, or returns no deployment: except, next iteration
          /\ sw_status' = [sw_status EXCEPT ![d] = "raised"]
          /\ sw_handled' = sw_handled \cup {d}
          /\ sw_idx' = sw_idx + 1
          /\ UNCHANGED sw_pc
       \/ \E status \in BlueGreenStatuses :
            /\ sw_status' = [sw_status EXCEPT ![d] = status]
            /\ IF SW_MaySwitch(status)
               THEN /\ sw_pc' = "switch"
                    /\ UNCHANGED <<sw_idx, sw_handled>>
               ELSE /\ sw_handled' = sw_handled \cup {d}
                    /\ sw_idx' = sw_idx + 1
                    /\ UNCHANGED sw_pc
    /\ UNCHANGED <<sw_map, sw_switchCalls>>

\* rds_client.switchover_blue_green_deployment(...): returns or raises, and
\* the loop goes on either way
SW_Switchover ==
    /\ UNCHANGED SW_Others
    /\ sw_pc = "switch"
    /\ LET d == sw_map[sw_idx] IN
       /\ sw_switchCalls' = [sw_switchCalls EXCEPT ![d] = @ + 1]
       /\ sw_handled' = sw_handled \cup {d}
    /\ sw_idx' = sw_idx + 1
    /\ sw_pc' = "loop"
    /\ UNCHANGED <<sw_map, sw_status>>

\* the for loop is exhausted
SW_Finish ==
    /\ UNCHANGED SW_Others
    /\ sw_pc = "loop"
    /\ sw_idx > Len(sw_map)
    /\ sw_pc' = "done"
    /\ UNCHANGED <<sw_map, sw_idx, sw_status, sw_switchCalls, sw_handled>>

SW_Next ==
    \/ SW_List
    \/ SW_Describe
    \/ SW_Switchover
    \/ SW_Finish

SpecSwitchover == SW_Init /\ [][SW_Next]_vars /\ WF_vars(SW_Next)

SW_InMap(d) == \E k \in 1..Len(sw_map) : sw_map[k] = d

\* C4: a deployment is switched over at most once, and only when the
\* describe call made for it just before returned AVAILABLE; a deployment in
\* another status, or whose describe call raised, is passed over, and the
\* loop still handles every deployment of the map.
C4_SwitchoverOnlyAvailable ==
    /\ \A d \in Deployments :
         /\ sw_switchCalls[d] <= 1
         /\ sw_switchCalls[d] = 1 => sw_status[d] = "AVAILABLE" /\ SW_InMap(d)
         /\ d \in sw_handled /\ sw_status[d] # "AVAILABLE" => sw_switchCalls[d] = 0
         /\ d \in sw_handled /\ sw_status[d] = "AVAILABLE" => sw_switchCalls[d] = 1
    /\ sw_pc = "switch" => sw_status[sw_map[sw_idx]] = "AVAILABLE"
    /\ sw_pc = "done" => sw_handled = {sw_map[k] : k \in 1..Len(sw_map)}
    /\ sw_pc = "crashed" => sw_map = <<>> /\ sw_handled = {}

C4_Witness ==
    /\ sw_pc = "done"
    /\ Len(sw_map) = NumDeployments
    /\ sw_status[sw_map[1]] = "raised"
    /\ sw_status[sw_map[2]] = "SWITCHOVER_COMPLETED"
    /\ sw_switchCalls[sw_map[2]] = 0
    /\ sw_status[sw_map[3]] = "AVAILABLE"
    /\ sw_switchCalls[sw_map[3]] = 1

(***************************************************************************)
(* bluegreen_delete_old.py: delete the blue/green deployments, then the    *)
(* clusters whose identifier ends in "-old1" with their instances.         *)
(* Identifiers are sequences of characters, so that endswith() and the     *)
(* substring test "cluster_name in cluster_id" are computed as Python      *)
(* computes them.                                                          *)
(***************************************************************************)
Name_db == <<"d", "b">>

Name_db2 == <<"d", "b", "2">>

OldSuffix == <<"-", "o", "l", "d", "1">>

\* describe_db_clusters lists the clusters in this order
RdsClusterOrder == <<Name_db, Name_db \o OldSuffix, Name_db2 \o OldSuffix>>

ClusterIds == {RdsClusterOrder[k] : k \in 1..Len(RdsClusterOrder)}

\* DBClusterMembers of each cluster
InstancesOf(cluster) ==
    IF cluster = Name_db \o OldSuffix THEN <<"db-1-old1", "db-2-old1">>
    ELSE IF cluster = Name_db2 \o OldSuffix THEN <<"db2-1-old1">>
    ELSE <<"db-1">>

InstanceIds == UNION {{InstancesOf(c)[k] : k \in 1..Len(InstancesOf(c))} :
                      c \in ClusterIds}

ClusterOf(instance) ==
    CHOOSE c \in ClusterIds :
        \E k \in 1..Len(InstancesOf(c)) : InstancesOf(c)[k] = instance

\* describe_blue_green_deployments lists the deployments in this order
RdsDeploymentOrder == <<"bgd-1", "bgd-2">>

DeploymentIds == {RdsDeploymentOrder[k] : k \in 1..Len(RdsDeploymentOrder)}

\* BlueGreenDeploymentName is "bg-" + the identifier of the source cluster
\* (bluegreen_create.py): the cluster a deployment was made for
DeploymentCluster(dep) == IF dep = "bgd-1" THEN Name_db ELSE Name_db2

\* cluster_id.endswith(suffix)
EndsWith(s, suffix) ==
    /\ Len(s) >= Len(suffix)
    /\ SubSeq(s, Len(s) - Len(suffix) + 1, Len(s)) = suffix

\* sub in s
Contains(sub, s) ==
    \E k \in 1..(Len(s) - Len(sub) + 1) : SubSeq(s, k, k + Len(sub) - 1) = sub

\* get_old_clusters' test of one cluster identifier
DO_IsOldCluster(cluster_id, cluster_name) ==
    /\ EndsWith(cluster_id, OldSuffix)
    /\ cluster_name # <<>> => Contains(cluster_name, cluster_id)

DO_Init ==
    /\ DO_OthersIdle
    /\ do_pc = "bg_list"
    /\ do_cluster_name \in {<<>>, Name_db, Name_db2}
    /\ do_rdsDeployments \in [DeploymentIds -> {"absent", "present"}]
    /\ do_rdsClusters \in [ClusterIds -> {"absent", "present"}]
    /\ do_rdsInstances = [i \in InstanceIds |-> do_rdsClusters[ClusterOf(i)]]
    /\ do_deployments = <<>>
    /\ do_depIdx = 1
    /\ do_old_clusters = <<>>
    /\ do_clIdx = 1
    /\ do_members = <<>>
    /\ do_memIdx = 1
    /\ do_deletedDeployments = {}
    /\ do_deletedInstances = {}
    /\ do_clusterDeleteLog = {}

DO_ProgramVars == <<do_pc, do_cluster_name, do_deployments, do_depIdx,
                    do_old_clusters, do_clIdx, do_members, do_memIdx,
                    do_deletedDeployments, do_deletedInstances,
                    do_clusterDeleteLog>>

\* RDS finishes deleting a blue/green deployment
RDS_DeploymentDeleted ==
    /\ UNCHANGED DO_Others
    /\ \E d \in DeploymentIds :
         /\ do_rdsDeployments[d] = "deleting"
         /\ do_rdsDeployments' = [do_rdsDeployments EXCEPT ![d] = "absent"]
    /\ UNCHANGED <<DO_ProgramVars, do_rdsClusters, do_rdsInstances>>

\* RDS finishes deleting a DB instance
RDS_InstanceDeleted ==
    /\ UNCHANGED DO_Others
    /\ \E i \in InstanceIds :
         /\ do_rdsInstances[i] = "deleting"
         /\ do_rdsInstances' = [do_rdsInstances EXCEPT ![i] = "absent"]
    /\ UNCHANGED <<DO_ProgramVars, do_rdsClusters, do_rdsDeployments>>

\* delete_blue_green_deployments: response = describe_blue_green_deployments()
DO_ListDeployments ==
    /\ UNCHANGED DO_Others
    /\ do_pc = "bg_list"
    /\ \/ \* the call raises: except Exception, back in main
          /\ do_pc' = "clusters"
          /\ UNCHANGED do_deployments
       \/ LET listed == SelectSeq(RdsDeploymentOrder,
                                  LAMBDA d : do_rdsDeployments[d] # "absent")
          IN /\ do_deployments' = listed
             /\ do_pc' = IF listed = <<>> THEN "clusters" ELSE "bg_delete"
    /\ UNCHANGED <<do_cluster_name, do_rdsDeployments, do_rdsClusters,
                   do_rdsInstances, do_depIdx, do_old_clusters, do_clIdx,
                   do_members, do_memIdx, do_deletedDeployments,
                   do_deletedInstances, do_clusterDeleteLog>>

\* for deployment in deployments: delete_blue_green_deployment(...)
DO_DeleteDeployment ==
    /\ UNCHANGED DO_Others
    /\ do_pc = "bg_delete"
    /\ do_depIdx <= Len(do_deployments)
    /\ LET d == do_deployments[do_depIdx] IN
       \/ \* the call raises: the inner except, next deployment
          /\ do_depIdx' = do_depIdx + 1
          /\ UNCHANGED <<do_pc, do_rdsDeployments, do_deletedDeployments>>
       \/ /\ do_rdsDeployments[d] = "present"
          /\ do_rdsDeployments' = [do_rdsDeployments EXCEPT ![d] = "deleting"]
          /\ do_deletedDeployments' = do_deletedDeployments \cup {d}
          /\ do_pc' = "bg_wait"
          /\ UNCHANGED do_depIdx
    /\ UNCHANGED <<do_cluster_name, do_rdsClusters, do_rdsInstances,
                   do_deployments, do_old_clusters, do_clIdx, do_members,
                   do_memIdx, do_deletedInstances, do_clusterDeleteLog>>

\* while True: try: describe_blue_green_deployments(...); sleep
\*             except: break
\* A describe that returns changes nothing; any exception ends the wait.
DO_WaitDeployment ==
    /\ UNCHANGED DO_Others
    /\ do_pc = "bg_wait"
    /\ \E transient \in BOOLEAN :
         /\ transient \/ do_rdsDeployments[do_deployments[do_depIdx]] = "absent"
         /\ do_depIdx' = do_depIdx + 1
         /\ do_pc' = "bg_delete"
    /\ UNCHANGED <<do_cluster_name, do_rdsDeployments, do_rdsClusters,
                   do_rdsInstances, do_deployments, do_old_clusters, do_clIdx,
                   do_members, do_memIdx, do_deletedDeployments,
                   do_deletedInstances, do_clusterDeleteLog>>

\* the deployments loop is exhausted: back in main
DO_DeploymentsDone ==
    /\ UNCHANGED DO_Others
    /\ do_pc = "bg_delete"
    /\ do_depIdx > Len(do_deployments)
    /\ do_pc' = "clusters"
    /\ UNCHANGED <<do_cluster_name, do_rdsDeployments, do_rdsClusters,
                   do_rdsInstances, do_deployments, do_depIdx, do_old_clusters,
                   do_clIdx, do_members, do_memIdx, do_deletedDeployments,
                   do_deletedInstances, do_clusterDeleteLog>>

\* old_clusters = get_old_clusters(rds_client, args.cluster_name)
DO_GetOldClusters ==
    /\ UNCHANGED DO_Others
    /\ do_pc = "clusters"
    /\ \/ \* describe_db_clusters raises: return []
          /\ do_old_clusters' = <<>>
          /\ do_pc' = "done"
       \/ LET found == SelectSeq(RdsClusterOrder,
                          LAMBDA c : /\ do_rdsClusters[c] = "present"
                                     /\ DO_IsOldCluster(c, do_cluster_name))
          IN /\ do_old_clusters' = found
             /\ do_pc' = IF found = <<>> THEN "done" ELSE "cl_describe"
    /\ UNCHANGED <<do_cluster_name, do_rdsDeployments, do_rdsClusters,
                   do_rdsInstances, do_deployments, do_depIdx, do_clIdx,
                   do_members, do_memIdx, do_deletedDeployments,
                   do_deletedInstances, do_clusterDeleteLog>>

\* delete_cluster: response = describe_db_clusters(DBClusterIdentifier=...)
DO_DescribeCluster ==
    /\ UNCHANGED DO_Others
    /\ do_pc = "cl_describe"
    /\ do_clIdx <= Len(do_old_clusters)
    /\ \/ \* the call raises: return False, next cluster
          /\ do_clIdx' = do_clIdx + 1
          /\ UNCHANGED <<do_pc, do_members>>
       \/ /\ do_members' = SelectSeq(InstancesOf(do_old_clusters[do_clIdx]),
                                     LAMBDA i : do_rdsInstances[i] # "absent")
          /\ do_pc' = "inst_delete"
          /\ UNCHANGED do_clIdx
    /\ do_memIdx' = 1
    /\ UNCHANGED <<do_cluster_name, do_rdsDeployments, do_rdsClusters,
                   do_rdsInstances, do_deployments, do_depIdx, do_old_clusters,
                   do_deletedDeployments, do_deletedInstances,
                   do_clusterDeleteLog>>

\* first loop over the members: delete_db_instance(...)
DO_DeleteInstance ==
    /\ UNCHANGED DO_Others
    /\ do_pc = "inst_delete"
    /\ IF do_memIdx <= Len(do_members)
       THEN LET i == do_members[do_memIdx] IN
            \/ \* the call raises: return False, next cluster
               /\ do_pc' = "cl_describe"
               /\ do_clIdx' = do_clIdx + 1
               /\ UNCHANGED <<do_memIdx, do_rdsInstances, do_deletedInstances>>
            \/ /\ do_rdsInstances[i] = "present"
               /\ do_rdsInstances' = [do_rdsInstances EXCEPT ![i] = "deleting"]
               /\ do_deletedInstances' = do_deletedInstances \cup {i}
               /\ do_memIdx' = do_memIdx + 1
               /\ UNCHANGED <<do_pc, do_clIdx>>
       ELSE \* every delete was issued: on to the second loop
            /\ do_pc' = "inst_wait"
            /\ do_memIdx' = 1
            /\ UNCHANGED <<do_clIdx, do_rdsInstances, do_deletedInstances>>
    /\ UNCHANGED <<do_cluster_name, do_rdsDeployments, do_rdsClusters,
                   do_deployments, do_depIdx, do_old_clusters, do_members,
                   do_deletedDeployments, do_clusterDeleteLog>>

\* second loop over the members:
\* while True: try: describe_db_instances(...); sleep
\*             except: break
\* A describe that returns changes nothing; any exception ends the wait for
\* the instance, whether it is gone or the call failed for another reason.
DO_WaitInstance ==
    /\ UNCHANGED DO_Others
    /\ do_pc = "inst_wait"
    /\ IF do_memIdx <= Len(do_members)
       THEN \E transient \in BOOLEAN :
              /\ transient \/ do_rdsInstances[do_members[do_memIdx]] = "absent"
              /\ do_memIdx' = do_memIdx + 1
              /\ UNCHANGED do_pc
       ELSE /\ do_pc' = "cl_delete"
            /\ UNCHANGED do_memIdx
    /\ UNCHANGED <<do_cluster_name, do_rdsDeployments, do_rdsClusters,
                   do_rdsInstances, do_deployments, do_depIdx, do_old_clusters,
                   do_clIdx, do_members, do_deletedDeployments,
                   do_deletedInstances, do_clusterDeleteLog>>

\* delete_db_cluster(...); return True   (or it raises: return False)
DO_DeleteCluster ==
    /\ UNCHANGED DO_Others
    /\ do_pc = "cl_delete"
    /\ LET c == do_old_clusters[do_clIdx]
           all == {InstancesOf(c)[k] : k \in 1..Len(InstancesOf(c))}
       IN /\ do_clusterDeleteLog' = do_clusterDeleteLog \cup
               {[cluster |-> c,
                 notAsked |-> {i \in all : do_rdsInstances[i] = "present"},
                 inRds |-> {i \in all : do_rdsInstances[i] # "absent"}]}
          /\ \E raised \in BOOLEAN :
               do_rdsClusters' =
                   IF raised THEN do_rdsClusters
                   ELSE [do_rdsClusters EXCEPT ![c] = "deleted"]
    /\ do_clIdx' = do_clIdx + 1
    /\ do_pc' = "cl_describe"
    /\ UNCHANGED <<do_cluster_name, do_rdsDeployments, do_rdsInstances,
                   do_deployments, do_depIdx, do_old_clusters, do_members,
                   do_memIdx, do_deletedDeployments, do_deletedInstances>>

\* main's loop over old_clusters is exhausted
DO_ClustersDone ==
    /\ UNCHANGED DO_Others
    /\ do_pc = "cl_describe"
    /\ do_clIdx > Len(do_old_clusters)
    /\ do_pc' = "done"
    /\ UNCHANGED <<do_cluster_name, do_rdsDeployments, do_rdsClusters,
                   do_rdsInstances, do_deployments, do_depIdx, do_old_clusters,
                   do_clIdx, do_members, do_memIdx, do_deletedDeployments,
                   do_deletedInstances, do_clusterDeleteLog>>

DO_Next ==
    \/ RDS_DeploymentDeleted
    \/ RDS_InstanceDeleted
    \/ DO_ListDeployments
    \/ DO_DeleteDeployment
    \/ DO_WaitDeployment
    \/ DO_DeploymentsDone
    \/ DO_GetOldClusters
    \/ DO_DescribeCluster
    \/ DO_DeleteInstance
    \/ DO_WaitInstance
    \/ DO_DeleteCluster
    \/ DO_ClustersDone

SpecDeleteOld == DO_Init /\ [][DO_Next]_vars /\ WF_vars(DO_Next)

\* C5: delete_db_cluster is issued for a cluster only after delete_db_instance
\* was issued for every member instance and every member instance is gone
\* from RDS, also when describe_db_instances fails for another reason.
C5_ClusterDeletedAfterInstances ==
    \A call \in do_clusterDeleteLog : call.notAsked = {} /\ call.inRds = {}

\* C6: with --cluster_name given, every blue/green deployment, DB instance
\* and DB cluster the run deletes belongs to the named cluster.
C6_DeletionsRestrictedToNamedCluster ==
    do_cluster_name # <<>> =>
        /\ \A d \in do_deletedDeployments : DeploymentCluster(d) = do_cluster_name
        /\ \A i \in do_deletedInstances :
             ClusterOf(i) = do_cluster_name \o OldSuffix
        /\ \A call \in do_clusterDeleteLog :
             call.cluster = do_cluster_name \o OldSuffix

(***************************************************************************)
(* multi-account-bluegreen-deployment.py: for every account of the CSV     *)
(* file, filter the clusters and create a blue/green deployment for each   *)
(* cluster that passed, then print how many were created.                  *)
(***************************************************************************)
NumAccounts == 2

MaxClusters == 2

Accounts == 1..NumAccounts

\* Cluster identifiers, as sequences of characters
MA_ClusterIdentifiers == {<<"t", "e", "s", "t", "1">>, <<"T", "e", "s", "t", "2">>,
                          <<"t", "e", "s", "t">>, <<"p", "r", "o", "d">>}

\* float(engine_version.split(".")[0]) of the versions in use
MA_MajorVersions == {5, 8}

\* float(target_version.split(".")[0]) of "8.0.mysql_aurora.3.05.2"
MA_TargetMajor == 8

\* What describe_db_clusters and list_tags_for_resource give for one cluster
MA_Clusters == [id : MA_ClusterIdentifiers, major : MA_MajorVersions,
                tagged : BOOLEAN]

Digits == {"0", "1", "2", "3", "4", "5", "6", "7", "8", "9"}

\* str.lower() of one character
LowerChar(ch) ==
    CASE ch = "T" -> "t"
      [] ch = "E" -> "e"
      [] ch = "S" -> "s"
      [] ch = "P" -> "p"
      [] ch = "R" -> "r"
      [] ch = "O" -> "o"
      [] ch = "D" -> "d"
      [] OTHER -> ch

Lower(s) == [k \in 1..Len(s) |-> LowerChar(s[k])]

\* re.match(rf"^{name_filter}\d+$", cluster_identifier.lower()) is not None,
\* with name_filter = "test"
MA_NameCheck(cluster_identifier) ==
    LET s == Lower(cluster_identifier) IN
    /\ Len(s) >= 5
    /\ SubSeq(s, 1, 4) = <<"t", "e", "s", "t">>
    /\ \A k \in 5..Len(s) : s[k] \in Digits

\* if version_check and (name_check or tag_check)
MA_Selected(cluster) ==
    /\ cluster.major < MA_TargetMajor
    /\ MA_NameCheck(cluster.id) \/ cluster.tagged

\* The listings: at most MaxClusters clusters, no identifier twice
MA_Listings ==
    {l \in SeqsUpTo(MA_Clusters, MaxClusters) :
        \A j, k \in 1..Len(l) : j # k => l[j].id # l[k].id}

MA_Init ==
    /\ MA_OthersIdle
    /\ ma_pc = "account"
    /\ ma_account = 1
    /\ ma_clusters_to_upgrade = <<>>
    /\ ma_idx = 1
    /\ ma_created = [a \in Accounts |-> 0]
    /\ ma_printed = {}
    /\ ma_upgraded_clusters = [a \in Accounts |-> 0]

\* create_blue_green_deployment returns n and main prints it
MA_Return(n) ==
    /\ ma_upgraded_clusters' = [ma_upgraded_clusters EXCEPT ![ma_account] = n]
    /\ ma_printed' = ma_printed \cup {ma_account}
    /\ ma_account' = ma_account + 1
    /\ ma_pc' = "account"

\* for account in accounts: credentials = get_account_credentials(...)
MA_GetCredentials ==
    /\ UNCHANGED MA_Others
    /\ ma_pc = "account"
    /\ ma_account <= NumAccounts
    /\ \E found \in BOOLEAN :
         IF found
         THEN /\ ma_pc' = "list"
              /\ UNCHANGED ma_account
         ELSE \* if not credentials: continue
              /\ ma_account' = ma_account + 1
              /\ UNCHANGED ma_pc
    /\ UNCHANGED <<ma_clusters_to_upgrade, ma_idx, ma_created, ma_printed,
                   ma_upgraded_clusters>>

\* create_blue_green_deployment, up to the end of the filtering loop
MA_FilterClusters ==
    /\ UNCHANGED MA_Others
    /\ ma_pc = "list"
    /\ \/ \* a call of the listing raises: except Exception, return 0
          /\ MA_Return(0)
          /\ UNCHANGED <<ma_clusters_to_upgrade, ma_idx>>
       \/ \E listing \in MA_Listings :
            /\ ma_clusters_to_upgrade' =
                 LET chosen == SelectSeq(listing, MA_Selected)
                 IN [k \in 1..Len(chosen) |-> chosen[k].id]
            /\ ma_idx' = 1
            /\ ma_pc' = "create"
            /\ UNCHANGED <<ma_account, ma_printed, ma_upgraded_clusters>>
    /\ UNCHANGED ma_created

\* for cluster_name in clusters_to_upgrade: create_blue_green_deployment(...)
MA_Create ==
    /\ UNCHANGED MA_Others
    /\ ma_pc = "create"
    /\ ma_idx <= Len(ma_clusters_to_upgrade)
    /\ \/ \* the RDS call raises: except Exception, return 0
          /\ MA_Return(0)
          /\ UNCHANGED <<ma_idx, ma_created>>
       \/ /\ ma_created' = [ma_created EXCEPT ![ma_account] = @ + 1]
          /\ ma_idx' = ma_idx + 1
          /\ UNCHANGED <<ma_pc, ma_account, ma_printed, ma_upgraded_clusters>>
    /\ UNCHANGED ma_clusters_to_upgrade

\* return len(clusters_to_upgrade)
MA_ReturnCount ==
    /\ UNCHANGED MA_Others
    /\ ma_pc = "create"
    /\ ma_idx > Len(ma_clusters_to_upgrade)
    /\ MA_Return(Len(ma_clusters_to_upgrade))
    /\ UNCHANGED <<ma_clusters_to_upgrade, ma_idx, ma_created>>

\* main's loop is exhausted
MA_Done ==
    /\ UNCHANGED MA_Others
    /\ ma_pc = "account"
    /\ ma_account > NumAccounts
    /\ ma_pc' = "done"
    /\ UNCHANGED <<ma_account, ma_clusters_to_upgrade, ma_idx, ma_created,
                   ma_printed, ma_upgraded_clusters>>

MA_Next ==
    \/ MA_GetCredentials
    \/ MA_FilterClusters
    \/ MA_Create
    \/ MA_ReturnCount
    \/ MA_Done

SpecMultiAccount == MA_Init /\ [][MA_Next]_vars /\ WF_vars(MA_Next)

\* C7: the count main prints for an account is the number of
\* create_blue_green_deployment RDS calls that succeeded for that account,
\* also when a later call for the account raised.
C7_ReportedCountIsCreatedCount ==
    \A a \in ma_printed : ma_upgraded_clusters[a] = ma_created[a]

(***************************************************************************)
(* generate_judgments.py: for each of the first `limit` queries, search    *)
(* the products, ask the model to rate every document found, and write the *)
(* judgments with a rating >= 0 to the judgments index.                    *)
(***************************************************************************)
MaxQueries == 2

MaxDocs == 2

\* A query of the event: a text, or an empty text
GJ_QueryTexts == {"shoes", "bag", ""}

\* event.get('limit', 10)
GJ_DefaultLimit == 10

GJ_Limits == {-1, 0, 1, 2, GJ_DefaultLimit}

\* Ratings a JSON answer of the model may carry
GJ_JsonRatings == {-3, 2, 7}

\* Digits that may follow "rating": in an answer that is not JSON
GJ_FragmentDigits == {3, 9}

\* The texts the model returns, by how get_llm_judgment reads them:
\*   json          {"rating": n, ...}
\*   json_no_key   a JSON object without "rating"
\*   json_bad      a JSON object whose rating int() rejects, or JSON that is
\*                 no object
\*   fragment      not JSON, but holding "rating": d
\*   text          not JSON, no such fragment
\*   raised        invoke_model raised
GJ_Answers ==
    [kind : {"json"}, rating : GJ_JsonRatings]
        \cup [kind : {"fragment"}, rating : GJ_FragmentDigits]
        \cup [kind : {"json_no_key", "json_bad", "text", "raised"}, rating : {0}]

\* get_llm_judgment's rating for an answer
GJ_Rating(answer) ==
    CASE answer.kind = "json" -> Max(0, Min(4, answer.rating))
      [] answer.kind = "json_no_key" -> Max(0, Min(4, 0))
      [] answer.kind = "fragment" -> answer.rating
      [] OTHER -> -1

\* seq[:limit]
PySliceTo(seq, limit) ==
    IF limit >= 0
    THEN SubSeq(seq, 1, Min(limit, Len(seq)))
    ELSE SubSeq(seq, 1, Max(Len(seq) + limit, 0))

GJ_Init ==
    /\ GJ_OthersIdle
    /\ gj_pc = "start"
    /\ gj_event \in [queries : SeqsUpTo(GJ_QueryTexts, MaxQueries),
                     extractQueries : {<<>>, <<"shoes">>},
                     limit : GJ_Limits]
    /\ gj_queries = <<>>
    /\ gj_queries_to_process = <<>>
    /\ gj_qidx = 1
    /\ gj_documents = 0
    /\ gj_didx = 1
    /\ gj_searched = {}
    /\ gj_judged = {}
    /\ gj_all_judgments = <<>>
    /\ gj_processed_queries = 0
    /\ gj_indexed = {}
    /\ gj_result = [returned |-> FALSE]

\* handler, up to "queries_to_process = queries[:limit]"
GJ_ReadEvent ==
    /\ UNCHANGED GJ_Others
    /\ gj_pc = "start"
    /\ LET queries == IF gj_event.queries # <<>> THEN gj_event.queries
                      ELSE gj_event.extractQueries
       IN /\ gj_queries' = queries
          /\ IF queries = <<>>
             THEN /\ gj_pc' = "done"
                  /\ gj_result' = [returned |-> TRUE, judgmentCount |-> 0]
                  /\ UNCHANGED gj_queries_to_process
             ELSE /\ gj_pc' = "query"
                  /\ gj_queries_to_process' = PySliceTo(queries, gj_event.limit)
                  /\ UNCHANGED gj_result
    /\ UNCHANGED <<gj_event, gj_qidx, gj_documents, gj_didx, gj_searched,
                   gj_judged, gj_all_judgments, gj_processed_queries,
                   gj_indexed>>

\* for query_data in queries_to_process: ... documents = search_documents(...)
GJ_Search ==
    /\ UNCHANGED GJ_Others
    /\ gj_pc = "query"
    /\ gj_qidx <= Len(gj_queries_to_process)
    /\ IF gj_queries_to_process[gj_qidx] = ""
       THEN \* if not query_text: continue
            /\ gj_qidx' = gj_qidx + 1
            /\ UNCHANGED <<gj_pc, gj_documents, gj_searched>>
       ELSE /\ gj_searched' = gj_searched \cup {gj_qidx}
            /\ \E found \in 0..MaxDocs :
                 IF found = 0
                 THEN \* no hit, or the search raised: continue
                      /\ gj_qidx' = gj_qidx + 1
                      /\ UNCHANGED <<gj_pc, gj_documents>>
                 ELSE /\ gj_documents' = found
                      /\ gj_pc' = "judge"
                      /\ UNCHANGED gj_qidx
    /\ gj_didx' = 1
    /\ UNCHANGED <<gj_event, gj_queries, gj_queries_to_process, gj_judged,
                   gj_all_judgments, gj_processed_queries, gj_indexed,
                   gj_result>>

\* for doc in documents: judgment = get_llm_judgment(...); append
GJ_Judge ==
    /\ UNCHANGED GJ_Others
    /\ gj_pc = "judge"
    /\ IF gj_didx <= gj_documents
       THEN /\ \E answer \in GJ_Answers :
                 gj_all_judgments' = Append(gj_all_judgments,
                     [query |-> gj_queries_to_process[gj_qidx],
                      rank |-> gj_didx,
                      rating |-> GJ_Rating(answer)])
            /\ gj_judged' = gj_judged \cup {gj_qidx}
            /\ gj_didx' = gj_didx + 1
            /\ UNCHANGED <<gj_pc, gj_qidx, gj_processed_queries>>
       ELSE \* processed_queries += 1
            /\ gj_processed_queries' = gj_processed_queries + 1
            /\ gj_qidx' = gj_qidx + 1
            /\ gj_pc' = "query"
            /\ UNCHANGED <<gj_didx, gj_judged, gj_all_judgments>>
    /\ UNCHANGED <<gj_event, gj_queries, gj_queries_to_process, gj_documents,
                   gj_searched, gj_indexed, gj_result>>

\* save_judgments' filter: if j['rating'] >= 0
GJ_Actions(judgments) ==
    {k \in 1..Len(judgments) : judgments[k].rating >= 0}

\* saved_count = save_judgments(...) if all_judgments; return result
GJ_SaveAndReturn ==
    /\ UNCHANGED GJ_Others
    /\ gj_pc = "query"
    /\ gj_qidx > Len(gj_queries_to_process)
    /\ \/ \* indices.exists, indices.create or helpers.bulk raises
          /\ gj_all_judgments # <<>>
          /\ gj_pc' = "raised"
          /\ UNCHANGED <<gj_indexed, gj_result>>
       \/ \* helpers.bulk indexes some of the actions and returns how many
          \E written \in SUBSET GJ_Actions(gj_all_judgments) :
            /\ gj_indexed' = {gj_all_judgments[k] : k \in written}
            /\ gj_pc' = "done"
            /\ gj_result' = [returned |-> TRUE,
                             judgmentCount |-> Len(gj_all_judgments),
                             savedCount |-> Cardinality(written),
                             processedQueries |-> gj_processed_queries]
    /\ UNCHANGED <<gj_event, gj_queries, gj_queries_to_process, gj_qidx,
                   gj_documents, gj_didx, gj_searched, gj_judged,
                   gj_all_judgments, gj_processed_queries>>

GJ_Next ==
    \/ GJ_ReadEvent
    \/ GJ_Search
    \/ GJ_Judge
    \/ GJ_SaveAndReturn

SpecJudgments == GJ_Init /\ [][GJ_Next]_vars /\ WF_vars(GJ_Next)

\* C8: every document written to the judgments index has a rating between
\* 0 and 4, whatever text the model returned.
C8_IndexedRatingsOnScale ==
    \A doc \in gj_indexed : doc.rating \in 0..4

\* C9: the handler processes at most `limit` queries: processedQueries is at
\* most min(limit, number of queries) (none for a limit below 0), no query
\* after the first `limit` is searched or judged, and savedCount is at most
\* judgmentCount.
C9_AtMostLimitQueries ==
    /\ \A k \in gj_searched \cup gj_judged : k <= gj_event.limit
    /\ gj_processed_queries <= Max(0, Min(gj_event.limit, Len(gj_queries)))
    /\ gj_pc = "done" /\ gj_queries # <<>> =>
         /\ gj_result.processedQueries
              <= Max(0, Min(gj_event.limit, Len(gj_queries)))
         /\ gj_result.savedCount <= gj_result.judgmentCount

(***************************************************************************)
(* prepare_ltr_data.py, format_for_ranklib: one RankLib line per record,   *)
(* "<rating> qid:<qid> 1:<f1> ... # <doc_id>", the qid of a query being    *)
(* the rank of its first appearance.                                       *)
(***************************************************************************)
MaxRecords == 3

\* feature_names, as the handler passes them
FR_FeatureNames == <<"bm25_score", "title_match", "description_match",
                     "category_match", "brand_match", "price_log",
                     "popularity_score", "recency_score">>

\* The features extract_features found for a document: none of them for a
\* document it could not read, title_match for the other
FR_FeaturesOf(doc_id) ==
    IF doc_id = "p1" THEN [n \in {"title_match"} |-> 1] ELSE <<>>

FR_Records == [query : {"shoes", "bag", "hat"}, doc_id : {"p1", "p2"},
               rating : {0, 3}]

\* A qid taken from the counter whether or not the query was seen before.
FR_QidAlwaysNew(map, query, current) == current + 1

\* if query not in query_id_map: current_qid += 1; query_id_map[query] = ...
\* qid = query_id_map[query]
FR_Qid(map, query, current) ==
    IF query \in DOMAIN map THEN map[query] ELSE current + 1

\* for i, name in enumerate(feature_names, 1): f"{i}:{value:.6f}"
FR_FeatureParts(features) ==
    [i \in 1..Len(FR_FeatureNames) |->
        [index |-> i,
         value |-> IF FR_FeatureNames[i] \in DOMAIN features
                   THEN features[FR_FeatureNames[i]] ELSE 0]]

\* The "\n" that join() puts between two lines
LineBreak == [kind |-> "break"]

\* "\n".join(lines): the lines with a line break between two of them
RECURSIVE JoinLines(_)
JoinLines(lines) ==
    IF lines = <<>> THEN <<>>
    ELSE IF Len(lines) = 1 THEN <<lines[1]>>
    ELSE JoinLines(SubSeq(lines, 1, Len(lines) - 1))
             \o <<LineBreak, lines[Len(lines)]>>

FR_Init ==
    /\ FR_OthersIdle
    /\ fr_pc = "loop"
    /\ fr_data \in SeqsUpTo(FR_Records, MaxRecords)
    /\ fr_idx = 1
    /\ fr_lines = <<>>
    /\ fr_query_id_map = <<>>
    /\ fr_current_qid = 0
    /\ fr_output = <<>>

\* One iteration of "for record in data"
FR_FormatRecord ==
    /\ UNCHANGED FR_Others
    /\ fr_pc = "loop"
    /\ fr_idx <= Len(fr_data)
    /\ LET record == fr_data[fr_idx]
           qid == FR_Qid(fr_query_id_map, record.query, fr_current_qid)
       IN /\ fr_current_qid' = IF record.query \in DOMAIN fr_query_id_map
                               THEN fr_current_qid ELSE fr_current_qid + 1
          /\ fr_query_id_map' =
                 [q \in DOMAIN fr_query_id_map \cup {record.query} |->
                     IF q = record.query THEN qid ELSE fr_query_id_map[q]]
          /\ fr_lines' = Append(fr_lines,
                 [kind |-> "line",
                  rating |-> record.rating,
                  qid |-> qid,
                  features |-> FR_FeatureParts(FR_FeaturesOf(record.doc_id)),
                  doc_id |-> record.doc_id])
    /\ fr_idx' = fr_idx + 1
    /\ UNCHANGED <<fr_pc, fr_data, fr_output>>

\* return "\n".join(lines)
FR_Return ==
    /\ UNCHANGED FR_Others
    /\ fr_pc = "loop"
    /\ fr_idx > Len(fr_data)
    /\ fr_output' = JoinLines(fr_lines)
    /\ fr_pc' = "done"
    /\ UNCHANGED <<fr_data, fr_idx, fr_lines, fr_query_id_map, fr_current_qid>>

FR_Next ==
    \/ FR_FormatRecord
    \/ FR_Return

SpecRanklib == FR_Init /\ [][FR_Next]_vars /\ WF_vars(FR_Next)

\* The lines of a text: what stands between its line breaks
C10_LinesOf(text) ==
    LET breaks == {k \in 1..Len(text) : text[k].kind = "break"}
        kept == SelectSeq([k \in 1..Len(text) |-> k],
                          LAMBDA k : k \notin breaks)
    IN [k \in 1..Len(kept) |-> text[kept[k]]]

\* The position at which the query of record k first appears in data
C10_FirstAppearance(data, k) ==
    CHOOSE j \in 1..k :
        /\ data[j].query = data[k].query
        /\ \A h \in 1..(j - 1) : data[h].query # data[k].query

\* C10: the text format_for_ranklib returns has one line per record, in the
\* order of the records; two lines carry the same qid exactly when their
\* records have the same query, and a query's qid is the rank of its first
\* appearance among the distinct queries (1, 2, ..., n).
C10_OneLinePerRecordQidByFirstAppearance ==
    fr_pc = "done" =>
        LET lines == C10_LinesOf(fr_output) IN
        /\ Len(lines) = Len(fr_data)
        /\ Cardinality({k \in 1..Len(fr_output) : fr_output[k].kind = "break"})
             = Max(0, Len(fr_data) - 1)
        /\ \A k \in 1..Len(fr_data) :
             /\ lines[k].doc_id = fr_data[k].doc_id
             /\ lines[k].rating = fr_data[k].rating
             /\ lines[k].qid =
                  Cardinality({fr_data[j].query :
                               j \in 1..C10_FirstAppearance(fr_data, k)})
        /\ \A j, k \in 1..Len(fr_data) :
             (lines[j].qid = lines[k].qid) <=> (fr_data[j].query = fr_data[k].query)
        /\ {lines[k].qid : k \in 1..Len(lines)}
             = 1..Cardinality({fr_data[k].query : k \in 1..Len(fr_data)})

C10_Witness ==
    /\ fr_pc = "done"
    /\ Len(fr_data) = 3
    /\ fr_data[1].query = fr_data[3].query
    /\ fr_data[1].query # fr_data[2].query
    /\ fr_output[1].qid = 1
    /\ fr_output[3].qid = 2
    /\ fr_output[5].qid = 1

(***************************************************************************)
(* The learning-to-rank stages of the UBI pipeline: the handler of         *)
(* prepare_ltr_data.py writes the RankLib training file to S3 and returns  *)
(* its s3Uri; the handler of train_ltr_model.py takes that result as its   *)
(* event (or under ltrDataResult), creates the LTR store and the           *)
(* featureset, downloads the file and uploads the model.  Text is a        *)
(* sequence of characters; "qid:" is written as one character, and every   *)
(* digit, letter and number of a RankLib line as the character "1".        *)
(***************************************************************************)
MaxJudgments == 2
MaxDataLen == 3

\* Python truthiness of a value: "if not s3_uri", "if data_bucket"
Truthy(v) == v.type = "str" /\ v.val # <<>>

\* dict.get(key): None for a missing key
DictGet(v) == IF v.type = "absent" THEN PyNone ELSE v

IsSpace(c) == c \in {" ", "\n"}

\* str.strip()
RECURSIVE StripLeft(_)
StripLeft(s) ==
    IF s # <<>> /\ IsSpace(Head(s)) THEN StripLeft(Tail(s)) ELSE s

RECURSIVE StripRight(_)
StripRight(s) ==
    IF s # <<>> /\ IsSpace(s[Len(s)])
    THEN StripRight(SubSeq(s, 1, Len(s) - 1)) ELSE s

Strip(s) == StripRight(StripLeft(s))

\* The first position of character c in s, 0 when there is none
FirstIndex(s, c) ==
    IF \E i \in 1..Len(s) : s[i] = c
    THEN CHOOSE i \in 1..Len(s) : s[i] = c /\ \A j \in 1..(i - 1) : s[j] # c
    ELSE 0

\* str.split(sep): the pieces between the separators, empty ones included
RECURSIVE SplitOn(_, _)
SplitOn(s, sep) ==
    LET i == FirstIndex(s, sep)
    IN IF i = 0 THEN <<s>>
       ELSE <<SubSeq(s, 1, i - 1)>> \o SplitOn(SubSeq(s, i + 1, Len(s)), sep)

\* str.split(): the pieces between runs of whitespace, none of them empty
RECURSIVE SplitWs(_)
SplitWs(s) ==
    IF s = <<>> THEN <<>>
    ELSE IF IsSpace(Head(s)) THEN SplitWs(Tail(s))
    ELSE LET ends == {n \in 1..Len(s) :
                         /\ \A k \in 1..n : ~IsSpace(s[k])
                         /\ n = Len(s) \/ IsSpace(s[n + 1])}
             n == CHOOSE n \in ends : TRUE
         IN <<SubSeq(s, 1, n)>> \o SplitWs(SubSeq(s, n + 1, Len(s)))

\* The lines of a text, joined by "\n"
RECURSIVE JoinText(_)
JoinText(lines) ==
    IF lines = <<>> THEN <<>>
    ELSE IF Len(lines) = 1 THEN lines[1]
    ELSE JoinText(SubSeq(lines, 1, Len(lines) - 1)) \o <<"\n">> \o lines[Len(lines)]

\* ---- prepare_ltr_data.py: handler ----

PP_Judgments == [query : {"", "shoes"}, doc_id : {"", "p1"}]

\* feature_config["features"]: {"name": name, "index": i} for i, name in
\* enumerate(feature_names, 1), with feature_names the list of the handler
PP_feature_config ==
    [i \in 1..Len(FR_FeatureNames) |->
        [name |-> FR_FeatureNames[i], index |-> i]]

\* The judgments that become training records: "if not query or not doc_id:
\* continue"
PP_TrainingData(judgments) ==
    SelectSeq(judgments, LAMBDA j : j.query # "" /\ j.doc_id # "")

\* The " i:value" parts of a line, for the first n feature names
RECURSIVE PP_FeatureText(_)
PP_FeatureText(n) ==
    IF n = 0 THEN <<>> ELSE PP_FeatureText(n - 1) \o <<" ", "1", ":", "1">>

\* One line of format_for_ranklib: "rating qid:n 1:v ... 8:v # doc_id"
PP_Line == <<"1", " ", "qid:", "1">> \o PP_FeatureText(Len(FR_FeatureNames))
               \o <<" ", "#", " ", "1">>

\* format_for_ranklib(training_data, feature_names) as text
PP_RanklibText(training_data) ==
    JoinText([i \in 1..Len(training_data) |-> PP_Line])

\* save_to_s3 returns f"s3://{bucket}/{key}"
PP_S3Uri(bucket) == PyStr(<<"s3://">> \o bucket \o <<"/", "1", "/", "1">>)

\* What the handler has come to: "none" while it runs, "raise" for an
\* exception of save_to_s3, "return" for a dict without s3Uri:
\* {"success": False, "message": "No judgments found", "recordCount": 0}
PP_Result(kind) == [kind |-> kind, success |-> FALSE, s3Uri |-> PyAbsent,
                    recordCount |-> 0]

\* The handler up to format_for_ranklib: fetch_judgments gives the hits, or
\* [] when the search raised; no judgments ends the handler
PP_FetchAndFormat ==
    /\ UNCHANGED TL_Others
    /\ pp_pc = "idle"
    /\ tl_pc = "idle"
    /\ \E judgments \in SeqsUpTo(PP_Judgments, MaxJudgments) :
          /\ pp_judgments' = judgments
          /\ IF judgments = <<>>
             THEN /\ pp_result' = PP_Result("return")
                  /\ pp_pc' = "done"
                  /\ UNCHANGED pp_ranklib_data
             ELSE /\ pp_ranklib_data' =
                         PP_RanklibText(PP_TrainingData(judgments))
                  /\ pp_pc' = "save_data"
                  /\ UNCHANGED pp_result
    /\ UNCHANGED <<pp_data_bucket, pp_s3_uri, tl_s3object, tl_via, tl_event,
                   tl_s3_uri, tl_pc, tl_calls, tl_training_data,
                   tl_num_features, tl_um_ret, tl_ret, tl_bodies,
                   tl_uploadedCounts>>

\* s3_uri = None; if data_bucket: s3_uri = save_to_s3(ranklib_data, ...)
PP_SaveData ==
    /\ UNCHANGED TL_Others
    /\ pp_pc = "save_data"
    /\ IF Truthy(pp_data_bucket)
       THEN \/ /\ tl_s3object' = [exists |-> TRUE, body |-> pp_ranklib_data]
               /\ pp_s3_uri' = PP_S3Uri(pp_data_bucket.val)
               /\ pp_pc' = "save_config"
               /\ UNCHANGED pp_result
            \/ /\ pp_result' = PP_Result("raise")
               /\ pp_pc' = "done"
               /\ UNCHANGED <<tl_s3object, pp_s3_uri>>
       ELSE /\ pp_s3_uri' = PyNone
            /\ pp_pc' = "save_config"
            /\ UNCHANGED <<tl_s3object, pp_result>>
    /\ UNCHANGED <<pp_data_bucket, pp_judgments, pp_ranklib_data, tl_via,
                   tl_event, tl_s3_uri, tl_pc, tl_calls, tl_training_data,
                   tl_num_features, tl_um_ret, tl_ret, tl_bodies,
                   tl_uploadedCounts>>

\* if data_bucket: save_to_s3(feature_config); return result
PP_SaveConfigAndReturn ==
    /\ UNCHANGED TL_Others
    /\ pp_pc = "save_config"
    /\ \/ /\ pp_result' = [kind |-> "return", success |-> TRUE,
                           s3Uri |-> pp_s3_uri,
                           recordCount |->
                               Len(PP_TrainingData(pp_judgments))]
       \/ /\ Truthy(pp_data_bucket)
          /\ pp_result' = PP_Result("raise")
    /\ pp_pc' = "done"
    /\ UNCHANGED <<pp_data_bucket, pp_judgments, pp_ranklib_data, pp_s3_uri,
                   tl_s3object, tl_via, tl_event, tl_s3_uri, tl_pc, tl_calls,
                   tl_training_data, tl_num_features, tl_um_ret, tl_ret,
                   tl_bodies, tl_uploadedCounts>>

\* ---- train_ltr_model.py ----

\* LTR_MODEL_NAME and its default
TL_model_name == "ubi_ltr_model"

\* features of the handler
TL_features ==
    <<[name |-> "bm25_score", index |-> 1],
      [name |-> "title_match", index |-> 2],
      [name |-> "description_match", index |-> 3],
      [name |-> "category_match", index |-> 4],
      [name |-> "brand_match", index |-> 5],
      [name |-> "price_log", index |-> 6],
      [name |-> "popularity_score", index |-> 7],
      [name |-> "recency_score", index |-> 8]>>

\* The names create_featureset has a template for
CF_TemplateNames == {"bm25_score", "title_match", "description_match",
                     "category_match", "brand_match", "price_log",
                     "popularity_score", "recency_score"}

\* feature_defs of create_featureset: one definition, in the order of
\* features, for every name the if/elif chain knows
CF_feature_defs(features) ==
    LET known == SelectSeq(features, LAMBDA f : f.name \in CF_TemplateNames)
    IN [i \in 1..Len(known) |-> known[i].name]

\* "definition" of model_definition: the keys, the weights in tenths, and
\* the feature each weight is commented to belong to
UM_definition ==
    <<[key |-> "1", weight |-> 10, feature |-> "bm25_score"],
      [key |-> "2", weight |-> 5, feature |-> "title_match"],
      [key |-> "3", weight |-> 3, feature |-> "description_match"],
      [key |-> "4", weight |-> 2, feature |-> "category_match"],
      [key |-> "5", weight |-> 2, feature |-> "brand_match"],
      [key |-> "6", weight |-> 1, feature |-> "price_log"],
      [key |-> "7", weight |-> 3, feature |-> "popularity_score"],
      [key |-> "8", weight |-> 1, feature |-> "recency_score"]>>

\* A model whose definition has a weight for the features of the file only.
UM_ModelDefinitionOfData(model_name, num_features) ==
    [name |-> model_name,
     type |-> "model/linear",
     definition |-> [i \in 1..Min(num_features, Len(UM_definition)) |->
                        [key |-> UM_definition[i].key,
                         weight |-> UM_definition[i].weight]]]

\* model_definition of upload_model; num_features is in scope and unused
UM_ModelDefinition(model_name, num_features) ==
    [name |-> model_name,
     type |-> "model/linear",
     definition |-> [i \in 1..Len(UM_definition) |->
                        [key |-> UM_definition[i].key,
                         weight |-> UM_definition[i].weight]]]

\* lines = [l for l in training_data.strip().split('\n') if l]
UM_Lines(training_data) ==
    SelectSeq(SplitOn(Strip(training_data), "\n"), LAMBDA l : l # <<>>)

\* feature_parts of the first line, without those that start with '#'
UM_NumFeatures(first_line) ==
    LET feature_parts ==
            SelectSeq(SplitWs(first_line),
                      LAMBDA p : /\ \E i \in 1..Len(p) : p[i] \in {":", "qid:"}
                                 /\ p[1] # "qid:")
    IN Len(SelectSeq(feature_parts, LAMBDA p : p[1] # "#"))

\* download_training_data: s3_uri.replace('s3://', '').split('/', 1); the
\* key is parts[1], which an URI without '/' does not have
DL_HasKey(s3_uri) ==
    FirstIndex(SelectSeq(s3_uri, LAMBDA c : c # "s3://"), "/") # 0

TL_Texts == UNION {[1..n -> {"qid:", ":", "#", " ", "\n"}] : n \in 0..MaxDataLen}
\* The events: s3Uri missing, None, "", an URI with a key, one without
TL_Events ==
    [s3Uri : {PyAbsent, PyNone, PyStr(<<>>),
              PyStr(<<"s3://", "1", "/", "1">>), PyStr(<<"s3://", "1">>)},
     ltrDataResult : {PyAbsent} \cup
         [type : {"dict"}, val : {<<>>},
          s3Uri : {PyAbsent, PyStr(<<"s3://", "1", "/", "1">>)}]]

\* What the handler has come to: "none" while it runs, "return" with the
\* success and message of the dict, "raise" for an exception
TL_Result(kind, success, message) ==
    [kind |-> kind, success |-> success, message |-> message]

TL_Call(op, ok) == [op |-> op, ok |-> ok]

\* s3_uri = event.get('s3Uri'); if not s3_uri: s3_uri =
\* event.get('ltrDataResult', {}).get('s3Uri')
TL_S3UriOf(event) ==
    IF Truthy(DictGet(event.s3Uri)) THEN event.s3Uri
    ELSE IF event.ltrDataResult.type = "absent" THEN PyNone
    ELSE DictGet(event.ltrDataResult.s3Uri)

TL_Init ==
    /\ TL_OthersIdle
    /\ pp_pc = "idle"
    /\ pp_data_bucket \in {PyNone, PyStr(<<>>), PyStr(<<"1">>)}
    /\ pp_judgments = <<>>
    /\ pp_ranklib_data = <<>>
    /\ pp_s3_uri = PyNone
    /\ pp_result = PP_Result("none")
    /\ tl_s3object = [exists |-> FALSE, body |-> <<>>]
    /\ tl_via = "direct"
    /\ tl_event = [s3Uri |-> PyAbsent, ltrDataResult |-> PyAbsent]
    /\ tl_s3_uri = PyNone
    /\ tl_pc = "idle"
    /\ tl_calls = <<>>
    /\ tl_training_data = <<>>
    /\ tl_num_features = 0
    /\ tl_um_ret = "none"
    /\ tl_ret = TL_Result("none", FALSE, "")
    /\ tl_bodies = {}
    /\ tl_uploadedCounts = {}

TL_PrepareVars == <<pp_pc, pp_data_bucket, pp_judgments, pp_ranklib_data,
                    pp_s3_uri, pp_result>>

\* The handler from its entry to get_opensearch_client
TL_Enter(via, event) ==
    /\ tl_via' = via
    /\ tl_event' = event
    /\ tl_s3_uri' = TL_S3UriOf(event)
    /\ tl_calls' = <<>>
    /\ tl_training_data' = <<>>
    /\ tl_num_features' = 0
    /\ tl_um_ret' = "none"
    /\ IF Truthy(TL_S3UriOf(event))
       THEN tl_pc' = "store_get" /\ tl_ret' = TL_Result("none", FALSE, "")
       ELSE /\ tl_pc' = "done"
            /\ tl_ret' = TL_Result("return", FALSE, "No training data provided")
    /\ UNCHANGED <<tl_bodies, tl_uploadedCounts>>

\* An invocation with an event of the caller's making
TL_Invoke ==
    /\ UNCHANGED TL_Others
    /\ tl_pc = "idle"
    /\ pp_pc = "idle"
    /\ \E event \in TL_Events : TL_Enter("direct", event)
    /\ UNCHANGED tl_s3object
    /\ UNCHANGED TL_PrepareVars

\* The state machine hands the result of prepare_ltr_data to the handler, as
\* the event or under ltrDataResult
TL_InvokeWithResult ==
    /\ UNCHANGED TL_Others
    /\ tl_pc = "idle"
    /\ pp_pc = "done"
    /\ pp_result.kind = "return"
    /\ LET result == [type |-> "dict", val |-> <<>>, s3Uri |-> pp_result.s3Uri]
       IN \/ TL_Enter("event", [s3Uri |-> pp_result.s3Uri,
                                ltrDataResult |-> PyAbsent])
          \/ TL_Enter("ltrDataResult", [s3Uri |-> PyAbsent,
                                        ltrDataResult |-> result])
    /\ UNCHANGED tl_s3object
    /\ UNCHANGED TL_PrepareVars

TL_Fixed == <<tl_via, tl_event, tl_s3_uri, tl_s3object>>

\* A request that ends the handler with {"success": False, "message": ...}
TL_Fail(op, message) ==
    /\ tl_calls' = Append(tl_calls, TL_Call(op, FALSE))
    /\ tl_ret' = TL_Result("return", FALSE, message)
    /\ tl_pc' = "done"

\* A request after which the handler goes on at position pc
TL_Step(op, ok, pc) ==
    /\ tl_calls' = Append(tl_calls, TL_Call(op, ok))
    /\ tl_pc' = pc
    /\ UNCHANGED tl_ret

\* create_ltr_store: GET /_ltr/{store_name}; any exception leads to the PUT
TL_StoreGet ==
    /\ UNCHANGED TL_Others
    /\ tl_pc = "store_get"
    /\ \/ TL_Step("GET store", TRUE, "featureset_delete")
       \/ TL_Step("GET store", FALSE, "store_put")
    /\ UNCHANGED <<TL_PrepareVars, TL_Fixed, tl_training_data,
                   tl_num_features, tl_um_ret, tl_bodies, tl_uploadedCounts>>

\* create_ltr_store: PUT /_ltr/{store_name}; False makes the handler return
TL_StorePut ==
    /\ UNCHANGED TL_Others
    /\ tl_pc = "store_put"
    /\ \/ TL_Step("PUT store", TRUE, "featureset_delete")
       \/ TL_Fail("PUT store", "Failed to create LTR store")
    /\ UNCHANGED <<TL_PrepareVars, TL_Fixed, tl_training_data,
                   tl_num_features, tl_um_ret, tl_bodies, tl_uploadedCounts>>

\* create_featureset: DELETE of the old featureset, exceptions ignored
TL_FeaturesetDelete ==
    /\ UNCHANGED TL_Others
    /\ tl_pc = "featureset_delete"
    /\ \E ok \in BOOLEAN : TL_Step("DELETE featureset", ok, "featureset_put")
    /\ UNCHANGED <<TL_PrepareVars, TL_Fixed, tl_training_data,
                   tl_num_features, tl_um_ret, tl_bodies, tl_uploadedCounts>>

\* create_featureset: PUT of the featureset; False makes the handler return
TL_FeaturesetPut ==
    /\ UNCHANGED TL_Others
    /\ tl_pc = "featureset_put"
    /\ \/ TL_Step("PUT featureset", TRUE, "download")
       \/ TL_Fail("PUT featureset", "Failed to create featureset")
    /\ UNCHANGED <<TL_PrepareVars, TL_Fixed, tl_training_data,
                   tl_num_features, tl_um_ret, tl_bodies, tl_uploadedCounts>>

\* download_training_data, outside any try: an URI without a key and a
\* failing get_object raise out of the handler.  Then upload_model up to
\* "if not lines: return False" and the count of the features
TL_Download ==
    /\ UNCHANGED TL_Others
    /\ tl_pc = "download"
    /\ \/ /\ ~DL_HasKey(tl_s3_uri.val)
          /\ tl_ret' = TL_Result("raise", FALSE, "")
          /\ tl_pc' = "done"
          /\ UNCHANGED <<tl_calls, tl_training_data, tl_num_features,
                         tl_um_ret>>
       \/ /\ DL_HasKey(tl_s3_uri.val)
          /\ tl_calls' = Append(tl_calls, TL_Call("get_object", FALSE))
          /\ tl_ret' = TL_Result("raise", FALSE, "")
          /\ tl_pc' = "done"
          /\ UNCHANGED <<tl_training_data, tl_num_features, tl_um_ret>>
       \/ /\ DL_HasKey(tl_s3_uri.val)
          /\ \E body \in IF tl_via = "direct" THEN TL_Texts
                         ELSE {tl_s3object.body} :
                /\ tl_training_data' = body
                /\ tl_calls' = Append(tl_calls, TL_Call("get_object", TRUE))
                /\ IF UM_Lines(body) = <<>>
                   THEN /\ tl_um_ret' = "False"
                        /\ tl_ret' = TL_Result("return", FALSE, "Failed to upload model")
                        /\ tl_pc' = "done"
                        /\ UNCHANGED tl_num_features
                   ELSE /\ tl_num_features' = UM_NumFeatures(UM_Lines(body)[1])
                        /\ tl_pc' = "model_delete"
                        /\ UNCHANGED <<tl_um_ret, tl_ret>>
    /\ UNCHANGED <<TL_PrepareVars, TL_Fixed, tl_bodies, tl_uploadedCounts>>

\* upload_model: DELETE of the old model, exceptions ignored
TL_ModelDelete ==
    /\ UNCHANGED TL_Others
    /\ tl_pc = "model_delete"
    /\ \E ok \in BOOLEAN : TL_Step("DELETE model", ok, "model_post")
    /\ UNCHANGED <<TL_PrepareVars, TL_Fixed, tl_training_data,
                   tl_num_features, tl_um_ret, tl_bodies, tl_uploadedCounts>>

\* upload_model: POST .../_createmodel with model_definition, and the return
\* of the handler
TL_ModelPost ==
    /\ UNCHANGED TL_Others
    /\ tl_pc = "model_post"
    /\ tl_bodies' = tl_bodies \cup
                        {UM_ModelDefinition(TL_model_name, tl_num_features)}
    /\ tl_uploadedCounts' = IF Cardinality(tl_uploadedCounts) < 2
                            THEN tl_uploadedCounts \cup {tl_num_features}
                            ELSE tl_uploadedCounts
    /\ \/ /\ tl_calls' = Append(tl_calls, TL_Call("POST createmodel", TRUE))
          /\ tl_um_ret' = "True"
          /\ tl_ret' = TL_Result("return", TRUE, "")
       \/ /\ tl_calls' = Append(tl_calls, TL_Call("POST createmodel", FALSE))
          /\ tl_um_ret' = "False"
          /\ tl_ret' = TL_Result("return", FALSE, "Failed to upload model")
    /\ tl_pc' = "done"
    /\ UNCHANGED <<TL_PrepareVars, TL_Fixed, tl_training_data,
                   tl_num_features>>

\* The next execution of the state machine, in the same Lambda containers
TL_NextExecution ==
    /\ UNCHANGED TL_Others
    /\ tl_pc = "done"
    /\ tl_pc' = "idle"
    /\ pp_pc' = "idle"
    /\ pp_judgments' = <<>>
    /\ pp_ranklib_data' = <<>>
    /\ pp_s3_uri' = PyNone
    /\ pp_result' = PP_Result("none")
    /\ tl_s3object' = [exists |-> FALSE, body |-> <<>>]
    /\ tl_via' = "direct"
    /\ tl_event' = [s3Uri |-> PyAbsent, ltrDataResult |-> PyAbsent]
    /\ tl_s3_uri' = PyNone
    /\ tl_calls' = <<>>
    /\ tl_training_data' = <<>>
    /\ tl_num_features' = 0
    /\ tl_um_ret' = "none"
    /\ tl_ret' = TL_Result("none", FALSE, "")
    /\ UNCHANGED <<pp_data_bucket, tl_bodies, tl_uploadedCounts>>

TL_Next ==
    \/ PP_FetchAndFormat
    \/ PP_SaveData
    \/ PP_SaveConfigAndReturn
    \/ TL_Invoke
    \/ TL_InvokeWithResult
    \/ TL_StoreGet
    \/ TL_StorePut
    \/ TL_FeaturesetDelete
    \/ TL_FeaturesetPut
    \/ TL_Download
    \/ TL_ModelDelete
    \/ TL_ModelPost
    \/ TL_NextExecution

SpecLtr == TL_Init /\ [][TL_Next]_vars /\ WF_vars(TL_Next)

\* Training data without content: empty, or spaces and line breaks only
C11_Blank(td) == \A i \in 1..Len(td) : td[i] \in {" ", "\n"}

C11_ModelRequests ==
    {k \in 1..Len(tl_calls) : tl_calls[k].op \in {"DELETE model", "POST createmodel"}}

C12_HasUri(event) ==
    \/ event.s3Uri.type = "str" /\ event.s3Uri.val # <<>>
    \/ /\ event.ltrDataResult.type = "dict"
       /\ event.ltrDataResult.s3Uri.type = "str"
       /\ event.ltrDataResult.s3Uri.val # <<>>

\* C12: the steps of the train_ltr_model handler are ordered and stop at
\* the first failure: a featureset request comes after a store request that
\* succeeded, a model request after the featureset PUT that succeeded, a
\* failed step is the last request and the handler returns success=False
\* for it, and an event without s3Uri causes no request at all.
C12_StepsOrderedShortCircuit ==
    /\ \A k \in 1..Len(tl_calls) :
          tl_calls[k].op \in {"DELETE featureset", "PUT featureset"} =>
              \E j \in 1..(k - 1) :
                  tl_calls[j].ok /\ tl_calls[j].op \in {"GET store", "PUT store"}
    /\ \A k \in 1..Len(tl_calls) :
          tl_calls[k].op \in {"DELETE model", "POST createmodel"} =>
              \E j \in 1..(k - 1) : tl_calls[j] = TL_Call("PUT featureset", TRUE)
    /\ \A k \in 1..Len(tl_calls) :
          (/\ ~tl_calls[k].ok
           /\ tl_calls[k].op \in {"PUT store", "PUT featureset", "get_object",
                                  "POST createmodel"})
              => /\ k = Len(tl_calls)
                 /\ tl_pc = "done"
                 /\ tl_ret.kind = "return"
                 /\ ~tl_ret.success
    /\ tl_pc = "done" => tl_ret.kind = "return"
    /\ (tl_pc # "idle" /\ ~C12_HasUri(tl_event)) =>
           /\ tl_calls = <<>>
           /\ tl_pc = "done"
           /\ tl_ret = TL_Result("return", FALSE, "No training data provided")

\* C17: whenever prepare_ltr_data returned success=True, train_ltr_model
\* invoked with that result (as the event or under ltrDataResult) finds an
\* s3Uri, does not return "No training data provided" and, when no request
\* fails, creates the model; and the eight feature names have the same
\* 1-based order in prepare_ltr_data, in the featureset of train_ltr_model
\* and in the weight keys of the model.
C17_PipelineHandsOff ==
    /\ (tl_via # "direct" /\ pp_result.success) =>
           /\ Truthy(tl_s3_uri)
           /\ tl_ret.message # "No training data provided"
           /\ (/\ tl_pc = "done"
               /\ \A k \in 1..Len(tl_calls) :
                      tl_calls[k].ok \/ tl_calls[k].op \in
                          {"GET store", "DELETE featureset", "DELETE model"})
                  => /\ tl_ret.kind = "return" /\ tl_ret.success
                     /\ \E k \in 1..Len(tl_calls) :
                            tl_calls[k] = TL_Call("POST createmodel", TRUE)
    /\ Len(FR_FeatureNames) = 8
    /\ Len(CF_feature_defs(TL_features)) = 8
    /\ Len(UM_definition) = 8
    /\ \A i \in 1..8 :
          /\ PP_feature_config[i] = TL_features[i]
          /\ CF_feature_defs(TL_features)[i] = FR_FeatureNames[i]
          /\ UM_definition[i].feature = FR_FeatureNames[i]
          /\ UM_definition[i].key = ToString(PP_feature_config[i].index)

(***************************************************************************)
(* setup_opensearch.py: the custom resource handler.  For Create and       *)
(* Update it reads the master user's secret, maps the IAM roles, creates   *)
(* the indices and adds the sample data.                                   *)
(***************************************************************************)
\* The keys of indices in create_indices, in dict order
SO_indices == <<"ubi_queries", "ubi_events", "products", "llm_judgments">>

\* ubi_indices of create_indices: recreated when they exist
SO_ubi_indices == {"ubi_queries", "ubi_events"}

SO_IndexNames == {SO_indices[i] : i \in 1..Len(SO_indices)}

SO_Init ==
    /\ SO_OthersIdle
    /\ so_pc = "start"
    /\ so_request_type \in {"Create", "Update", "Delete", "Replace"}
    /\ os_exists \in [SO_IndexNames -> BOOLEAN]
    /\ so_mapped = FALSE
    /\ so_idx = 1
    /\ so_results = [n \in SO_IndexNames |-> "none"]
    /\ so_sample_data = "none"
    /\ so_ret = "none"

\* The handler up to get_basic_auth_client: Delete and unknown request
\* types return at once; get_secret raises out of the handler
SO_Start ==
    /\ UNCHANGED SO_Others
    /\ so_pc = "start"
    /\ IF so_request_type = "Delete"
       THEN so_ret' = "delete" /\ so_pc' = "done"
       ELSE IF so_request_type \in {"Create", "Update"}
       THEN \/ so_ret' = so_ret /\ so_pc' = "map_iam_roles"
            \/ so_ret' = "raise" /\ so_pc' = "done"
       ELSE so_ret' = "unknown" /\ so_pc' = "done"
    /\ UNCHANGED <<so_request_type, os_exists, so_mapped, so_idx, so_results,
                   so_sample_data>>

\* map_iam_roles: returns True, or logs and re-raises what GET or PUT raised
SO_MapIamRoles ==
    /\ UNCHANGED SO_Others
    /\ so_pc = "map_iam_roles"
    /\ \/ so_mapped' = TRUE /\ so_pc' = "create_indices" /\ so_ret' = so_ret
       \/ so_mapped' = FALSE /\ so_pc' = "done" /\ so_ret' = "raise"
    /\ UNCHANGED <<so_request_type, os_exists, so_idx, so_results,
                   so_sample_data>>

\* One iteration of "for index_name, mapping in indices.items()": an
\* existing UBI index is deleted, a missing index is created, and whatever
\* exists, delete or create raises becomes results[index_name] = "error: ..."
SO_CreateIndex ==
    /\ UNCHANGED SO_Others
    /\ so_pc = "create_indices"
    /\ so_idx <= Len(SO_indices)
    /\ LET index_name == SO_indices[so_idx]
           recreate == index_name \in SO_ubi_indices /\ os_exists[index_name]
           Outcome(result, exists) ==
               /\ so_results' = [so_results EXCEPT ![index_name] = result]
               /\ os_exists' = [os_exists EXCEPT ![index_name] = exists]
       IN \/ Outcome("error", os_exists[index_name])
          \/ recreate /\ Outcome("error", FALSE)
          \/ (recreate \/ ~os_exists[index_name]) /\ Outcome("created", TRUE)
          \/ (~recreate /\ os_exists[index_name]) /\ Outcome("exists", TRUE)
    /\ so_idx' = so_idx + 1
    /\ UNCHANGED <<so_pc, so_request_type, so_mapped, so_sample_data, so_ret>>

\* The end of create_indices' loop, add_sample_data (which logs the
\* documents it could not index) and the return of the success dict
SO_AddSampleDataAndReturn ==
    /\ UNCHANGED SO_Others
    /\ so_pc = "create_indices"
    /\ so_idx > Len(SO_indices)
    /\ so_sample_data' \in {"all", "some"}
    /\ so_ret' = "success"
    /\ so_pc' = "done"
    /\ UNCHANGED <<so_request_type, os_exists, so_mapped, so_idx, so_results>>

SO_Next ==
    \/ SO_Start
    \/ SO_MapIamRoles
    \/ SO_CreateIndex
    \/ SO_AddSampleDataAndReturn

SpecSetup == SO_Init /\ [][SO_Next]_vars /\ WF_vars(SO_Next)

\* C13: for Create and Update the handler returns the success dict only
\* when setup succeeded and raises otherwise: no success after
\* map_iam_roles failed, and none when create_indices could not create one
\* of the four indices.
C13_SuccessOnlyWhenSetupSucceeded ==
    (so_pc = "done" /\ so_request_type \in {"Create", "Update"}) =>
        /\ so_ret \in {"success", "raise"}
        /\ so_ret = "success" =>
               /\ so_mapped
               /\ \A n \in SO_IndexNames : so_results[n] \in {"created", "exists"}
        /\ (\E n \in SO_IndexNames : so_results[n] = "error") => so_ret = "raise"

(***************************************************************************)
(* QCliAthenaTracker.estimate_tokens: token estimates from the usage       *)
(* counts of a summary and the multipliers of QCLI_TOKEN_ESTIMATION.       *)
(***************************************************************************)
MaxCount == 2

QCLI_TOKEN_ESTIMATION ==
    [conservative |->
        [chat_message_input |-> 100, chat_message_output |-> 300,
         chat_code_line |-> 50, inline_suggestion |-> 40,
         inline_code_line |-> 50, dev_event_input |-> 400,
         dev_event_output |-> 600, test_event_input |-> 300,
         test_event_output |-> 500, doc_event_input |-> 200,
         doc_event_output |-> 400],
     average |->
        [chat_message_input |-> 150, chat_message_output |-> 500,
         chat_code_line |-> 75, inline_suggestion |-> 60,
         inline_code_line |-> 75, dev_event_input |-> 600,
         dev_event_output |-> 1000, test_event_input |-> 450,
         test_event_output |-> 750, doc_event_input |-> 350,
         doc_event_output |-> 600],
     optimistic |->
        [chat_message_input |-> 200, chat_message_output |-> 800,
         chat_code_line |-> 100, inline_suggestion |-> 80,
         inline_code_line |-> 100, dev_event_input |-> 1000,
         dev_event_output |-> 1500, test_event_input |-> 600,
         test_event_output |-> 1000, doc_event_input |-> 500,
         doc_event_output |-> 800]]

\* The keys of a summary that estimate_tokens reads
ET_SummaryKeys == {"total_chat_messages", "total_inline_suggestions",
                   "total_inline_acceptances", "total_chat_code_lines",
                   "total_inline_code_lines", "total_dev_events",
                   "total_test_events", "total_doc_events"}

\* The summaries: get_total_summary's (without total_doc_events), one with
\* every key, and the empty dict
ET_Summaries ==
    UNION {[keys -> 0..MaxCount] :
              keys \in {ET_SummaryKeys, ET_SummaryKeys \ {"total_doc_events"}, {}}}

\* The estimation types callers pass; "detailed" is not in the table
ET_Types == {"conservative", "average", "optimistic", "detailed"}

\* summary.get(key, 0)
ET_Get(summary, key) == IF key \in DOMAIN summary THEN summary[key] ELSE 0

\* An unknown estimation type falls back to the first table.
ET_EstimationTypeFirst(estimation_type) ==
    IF estimation_type \notin DOMAIN QCLI_TOKEN_ESTIMATION
    THEN "conservative" ELSE estimation_type

\* if estimation_type not in QCLI_TOKEN_ESTIMATION: estimation_type = "average"
ET_EstimationType(estimation_type) ==
    IF estimation_type \notin DOMAIN QCLI_TOKEN_ESTIMATION
    THEN "average" ELSE estimation_type

\* estimate_tokens(summary, estimation_type)
ET_estimate_tokens(summary, estimation_type) ==
    LET type == ET_EstimationType(estimation_type)
        constants == QCLI_TOKEN_ESTIMATION[type]
        doc_events == IF "total_doc_events" \in DOMAIN summary
                      THEN ET_Get(summary, "total_doc_events") ELSE 0
        estimated_input_tokens ==
            ET_Get(summary, "total_chat_messages") * constants.chat_message_input
            + ET_Get(summary, "total_inline_suggestions") * constants.inline_suggestion
            + ET_Get(summary, "total_dev_events") * constants.dev_event_input
            + ET_Get(summary, "total_test_events") * constants.test_event_input
            + doc_events * constants.doc_event_input
        estimated_output_tokens ==
            ET_Get(summary, "total_chat_messages") * constants.chat_message_output
            + ET_Get(summary, "total_chat_code_lines") * constants.chat_code_line
            + ET_Get(summary, "total_inline_code_lines") * constants.inline_code_line
            + ET_Get(summary, "total_inline_acceptances") * constants.inline_suggestion
            + ET_Get(summary, "total_dev_events") * constants.dev_event_output
            + ET_Get(summary, "total_test_events") * constants.test_event_output
            + doc_events * constants.doc_event_output
    IN [estimation_type |-> type,
        estimated_input_tokens |-> estimated_input_tokens,
        estimated_output_tokens |-> estimated_output_tokens,
        estimated_total_tokens |->
            estimated_input_tokens + estimated_output_tokens]

ET_Init ==
    /\ ET_OthersIdle
    /\ et_pc = "run"
    /\ et_summary \in ET_Summaries
    /\ et_results = <<>>

\* One call of estimate_tokens for the summary, as the report makes them
ET_Estimate ==
    /\ UNCHANGED ET_Others
    /\ et_pc = "run"
    /\ \E estimation_type \in ET_Types \ DOMAIN et_results :
          et_results' =
              [t \in DOMAIN et_results \cup {estimation_type} |->
                  IF t = estimation_type
                  THEN ET_estimate_tokens(et_summary, estimation_type)
                  ELSE et_results[t]]
    /\ UNCHANGED <<et_pc, et_summary>>

\* The caller has every estimate it asked for
ET_Finish ==
    /\ UNCHANGED ET_Others
    /\ et_pc = "run"
    /\ DOMAIN et_results = ET_Types
    /\ et_pc' = "done"
    /\ UNCHANGED <<et_summary, et_results>>

ET_Next ==
    \/ ET_Estimate
    \/ ET_Finish

SpecEstimate == ET_Init /\ [][ET_Next]_vars /\ WF_vars(ET_Next)

\* The count and multiplier pairs of the input and of the output estimate
C14_InputTerms ==
    {<<"total_chat_messages", "chat_message_input">>,
     <<"total_inline_suggestions", "inline_suggestion">>,
     <<"total_dev_events", "dev_event_input">>,
     <<"total_test_events", "test_event_input">>,
     <<"total_doc_events", "doc_event_input">>}

C14_OutputTerms ==
    {<<"total_chat_messages", "chat_message_output">>,
     <<"total_chat_code_lines", "chat_code_line">>,
     <<"total_inline_code_lines", "inline_code_line">>,
     <<"total_inline_acceptances", "inline_suggestion">>,
     <<"total_dev_events", "dev_event_output">>,
     <<"total_test_events", "test_event_output">>,
     <<"total_doc_events", "doc_event_output">>}

\* The sum of count * multiplier over the pairs, for one table
RECURSIVE C14_Sum(_, _)
C14_Sum(terms, table) ==
    IF terms = {} THEN 0
    ELSE LET t == CHOOSE t \in terms : TRUE
             count == IF t[1] \in DOMAIN et_summary THEN et_summary[t[1]] ELSE 0
         IN count * table[t[2]] + C14_Sum(terms \ {t}, table)

\* C14: every estimate is the table lookup: input and output tokens are
\* the sums of count * multiplier of the selected table, the total is their
\* sum, an unknown estimation type gives exactly the 'average' result, and
\* the totals are ordered conservative <= average <= optimistic.
C14_EstimateIsTableLookup ==
    /\ \A t \in DOMAIN et_results :
          LET table == QCLI_TOKEN_ESTIMATION[IF t = "detailed" THEN "average" ELSE t]
              r == et_results[t]
          IN /\ r.estimated_input_tokens = C14_Sum(C14_InputTerms, table)
             /\ r.estimated_output_tokens = C14_Sum(C14_OutputTerms, table)
             /\ r.estimated_total_tokens =
                    r.estimated_input_tokens + r.estimated_output_tokens
             /\ r.estimated_total_tokens >= 0
    /\ {"detailed", "average"} \subseteq DOMAIN et_results =>
           et_results["detailed"] = et_results["average"]
    /\ {"conservative", "average"} \subseteq DOMAIN et_results =>
           et_results["conservative"].estimated_total_tokens
               <= et_results["average"].estimated_total_tokens
    /\ {"average", "optimistic"} \subseteq DOMAIN et_results =>
           et_results["average"].estimated_total_tokens
               <= et_results["optimistic"].estimated_total_tokens

\* All four estimates of a summary with counts above one and doc events
C14_Witness ==
    /\ et_pc = "done"
    /\ DOMAIN et_results = ET_Types
    /\ DOMAIN et_summary = ET_SummaryKeys
    /\ \A k \in ET_SummaryKeys : et_summary[k] >= 1
    /\ et_summary["total_doc_events"] = 2
    /\ et_results["conservative"].estimated_total_tokens
           < et_results["detailed"].estimated_total_tokens

(***************************************************************************)
(* The agent table of the DynamoDB single-table demo.  An agent item has   *)
(* GSI1_PK = its domain and GSI1_SK = "AGTSCORE#" + Score, both strings;   *)
(* query_agents_by_score reads index GSI1 backwards.  DynamoDB orders a    *)
(* string sort key by its bytes.  "AGTSCORE#" and "TL#" are written as one *)
(* character each.                                                         *)
(***************************************************************************)
NumAgents == 3

AG_PKs == {ToString(100 + k) : k \in 1..NumAgents}
AG_Domains == {"DMN001", "DMN002"}

\* Score attributes, as the digits of the string
AG_Scores == {<<"5">>, <<"4", "0">>, <<"6", "0">>, <<"1", "0", "0">>}

\* The items insert_sample_data puts under GSI1_PK = a domain id: agents
\* with GSI1_SK "AGTSCORE#" + Score, tools with GSI1_SK "TL#" + ToolNM
AG_Items ==
    {[present |-> TRUE, GSI1_PK |-> dom, GSI1_SK |-> <<"AGTSCORE#">> \o score,
      Score |-> score] : dom \in AG_Domains, score \in AG_Scores}
    \cup {[present |-> TRUE, GSI1_PK |-> dom, GSI1_SK |-> <<"TL#", "1">>,
           Score |-> <<>>] : dom \in AG_Domains}

\* The byte order of the characters of a sort key: the digits, in order
AG_Rank(c) ==
    LET digits == <<"0", "1", "2", "3", "4", "5", "6", "7", "8", "9">>
    IN IF c \in Digits THEN CHOOSE i \in 1..10 : digits[i] = c ELSE 0

\* a < b in the byte order of strings, which is the order of the index
RECURSIVE AG_StringLess(_, _)
AG_StringLess(a, b) ==
    IF a = <<>> THEN b # <<>>
    ELSE IF b = <<>> THEN FALSE
    ELSE IF a[1] = b[1] THEN AG_StringLess(Tail(a), Tail(b))
    ELSE AG_Rank(a[1]) < AG_Rank(b[1])

\* table.query(IndexName="GSI1", GSI1_PK = domain_id and
\* begins_with(GSI1_SK, "AGTSCORE"), ScanIndexForward=False, Limit=limit):
\* the responses DynamoDB can give; items with equal keys come in any order
AG_Query(table, domain_id, limit) ==
    LET matching == {pk \in DOMAIN table :
                        /\ table[pk].present
                        /\ table[pk].GSI1_PK = domain_id
                        /\ table[pk].GSI1_SK[1] = "AGTSCORE#"}
        n == Cardinality(matching)
        backwards == {f \in [1..n -> matching] :
                         /\ \A i, j \in 1..n : i # j => f[i] # f[j]
                         /\ \A i, j \in 1..n : i < j =>
                               ~AG_StringLess(table[f[i]].GSI1_SK,
                                              table[f[j]].GSI1_SK)}
    IN {SubSeq(f, 1, Min(limit, n)) : f \in backwards}

AG_Init ==
    /\ AG_OthersIdle
    /\ ag_pc = "load"
    /\ ag_table = [pk \in AG_PKs |->
                       [present |-> FALSE, GSI1_PK |-> "", GSI1_SK |-> <<>>,
                        Score |-> <<>>]]
    /\ ag_limit = 0
    /\ ag_items = <<>>

\* batch.put_item(Item=item) of insert_sample_data
AG_PutItem ==
    /\ UNCHANGED AG_Others
    /\ ag_pc = "load"
    /\ \E pk \in AG_PKs, item \in AG_Items :
          /\ ~ag_table[pk].present
          /\ ag_table' = [ag_table EXCEPT ![pk] = item]
    /\ UNCHANGED <<ag_pc, ag_limit, ag_items>>

\* query_agents_by_score(domain_id="DMN001", limit): 5 by default, 1 from
\* comprehensive_query_example
AG_QueryAgentsByScore ==
    /\ UNCHANGED AG_Others
    /\ ag_pc = "load"
    /\ \E limit \in {1, 5} :
          /\ ag_limit' = limit
          /\ ag_items' \in AG_Query(ag_table, "DMN001", limit)
    /\ ag_pc' = "done"
    /\ UNCHANGED ag_table

AG_Next ==
    \/ AG_PutItem
    \/ AG_QueryAgentsByScore

SpecAgents == AG_Init /\ [][AG_Next]_vars /\ WF_vars(AG_Next)

\* The number a Score string stands for
RECURSIVE C15_ScoreValue(_)
C15_ScoreValue(score) ==
    IF score = <<>> THEN 0
    ELSE 10 * C15_ScoreValue(SubSeq(score, 1, Len(score) - 1))
             + (AG_Rank(score[Len(score)]) - 1)

C15_AgentsOfDomain ==
    {pk \in AG_PKs : /\ ag_table[pk].present
                     /\ ag_table[pk].GSI1_PK = "DMN001"
                     /\ ag_table[pk].Score # <<>>}

\* C15: query_agents_by_score returns agents of the domain, in descending
\* order of numeric Score, the limit highest of them: with limit=1 the
\* agent with the highest Score.
C15_QueryReturnsDescendingScore ==
    ag_pc = "done" =>
        /\ \A i \in 1..Len(ag_items) : ag_items[i] \in C15_AgentsOfDomain
        /\ Len(ag_items) = Min(ag_limit, Cardinality(C15_AgentsOfDomain))
        /\ \A i, j \in 1..Len(ag_items) : i < j =>
              C15_ScoreValue(ag_table[ag_items[i]].Score)
                  >= C15_ScoreValue(ag_table[ag_items[j]].Score)
        /\ \A i \in 1..Len(ag_items) :
              \A pk \in C15_AgentsOfDomain :
                  (\A j \in 1..Len(ag_items) : ag_items[j] # pk) =>
                      C15_ScoreValue(ag_table[pk].Score)
                          <= C15_ScoreValue(ag_table[ag_items[i]].Score)

(***************************************************************************)
(* QCliS3LogAnalyzer.analyze_usage: statistics over the prompt log files   *)
(* of a period.  Above max_files files only every step-th file is parsed   *)
(* and the totals are scaled by len(log_files) / len(sample_files).  The   *)
(* model keeps total_requests, by_type, by_user and the token totals of    *)
(* stats; by_date and by_hour accumulate like by_user.                     *)
(***************************************************************************)
MaxLogRecords == 2

max_files == 500

\* len(log_files) as list_log_files can give it
AU_FileCounts == {0, 3, 500, 999, 1000, 1499, 1500}

\* len(log_files if len(log_files) <= max_files
\*     else log_files[::len(log_files)//max_files])
AU_SampleSize(n) ==
    IF n <= max_files THEN n
    ELSE LET step == n \div max_files
         IN (n + step - 1) \div step

\* What parse_log_file returns for a record of a log file
AU_Records == [type : {"chat", "inline"},
               userId : {<<>>, <<"P", "o">>, <<"d", "e">>},
               input_tokens : {1, 2},
               output_tokens : {0, 3}]

\* The user filter: "if user_pattern and record.get('userId'): if
\* user_pattern.lower() not in record['userId'].lower(): continue"
AU_Keeps(user_pattern, record) ==
    (user_pattern # <<>> /\ record.userId # <<>>)
        => Contains(Lower(user_pattern), Lower(record.userId))

\* The statistics of one record added to stats
AU_Add(stats, record) ==
    LET by_type == stats.by_type[record.type]
        user == IF record.userId \in DOMAIN stats.by_user
                THEN stats.by_user[record.userId]
                ELSE [requests |-> 0, input_tokens |-> 0, output_tokens |-> 0]
    IN [stats EXCEPT
           !.total_requests = @ + 1,
           !.by_type = [@ EXCEPT ![record.type] =
               [count |-> by_type.count + 1,
                input_tokens |-> by_type.input_tokens + record.input_tokens,
                output_tokens |-> by_type.output_tokens + record.output_tokens]],
           !.by_user = [u \in DOMAIN @ \cup {record.userId} |->
               IF u = record.userId
               THEN [requests |-> user.requests + 1,
                     input_tokens |-> user.input_tokens + record.input_tokens,
                     output_tokens |-> user.output_tokens + record.output_tokens]
               ELSE @[u]]]

\* The loops over sample_files and their records
RECURSIVE AU_Accumulate(_, _, _)
AU_Accumulate(stats, records, user_pattern) ==
    IF records = <<>> THEN stats
    ELSE AU_Accumulate(IF AU_Keeps(user_pattern, Head(records))
                       THEN AU_Add(stats, Head(records)) ELSE stats,
                       Tail(records), user_pattern)

\* "for type_stats in stats['by_type'].values()" and total_tokens
AU_Totals(stats) ==
    LET input == stats.by_type["chat"].input_tokens
                     + stats.by_type["inline"].input_tokens
        output == stats.by_type["chat"].output_tokens
                      + stats.by_type["inline"].output_tokens
    IN [stats EXCEPT !.total_input_tokens = input,
                     !.total_output_tokens = output,
                     !.total_tokens = input + output]

\* int(x * scale_factor) with scale_factor = n / m: the product is never
\* within rounding distance of an integer it does not equal for the counts
\* of the model, so the float result is the integer part of x * n / m
AU_Int(x, n, m) == (x * n) \div m

\* The scaling of the totals and of by_type when fewer than all files were
\* parsed; by_user stays as it is
AU_Scale(stats, n, m) ==
    IF m < n
    THEN [stats EXCEPT
             !.total_requests = AU_Int(@, n, m),
             !.total_input_tokens = AU_Int(@, n, m),
             !.total_output_tokens = AU_Int(@, n, m),
             !.total_tokens = AU_Int(@, n, m),
             !.by_type = [t \in DOMAIN @ |->
                 [count |-> AU_Int(@[t].count, n, m),
                  input_tokens |-> AU_Int(@[t].input_tokens, n, m),
                  output_tokens |-> AU_Int(@[t].output_tokens, n, m)]]]
    ELSE stats

AU_Init ==
    /\ AU_OthersIdle
    /\ au_pc = "start"
    /\ au_user_pattern \in {<<>>, <<"p">>}
    /\ au_log_files = 0
    /\ au_sample_files = 0
    /\ au_records = <<>>
    /\ au_sampled = AU_empty_stats(0)
    /\ au_stats = AU_empty_stats(0)

\* list_log_files, the return of _empty_stats() for no file, and the choice
\* of sample_files
AU_ListLogFiles ==
    /\ UNCHANGED AU_Others
    /\ au_pc = "start"
    /\ \E n \in AU_FileCounts :
          /\ au_log_files' = n
          /\ au_sample_files' = AU_SampleSize(n)
          /\ au_pc' = IF n = 0 THEN "done" ELSE "analyze"
    /\ UNCHANGED <<au_user_pattern, au_records, au_sampled, au_stats>>

\* The rest of analyze_usage: the sample files are parsed, their records
\* counted, the totals computed and scaled
AU_AnalyzeFiles ==
    /\ UNCHANGED AU_Others
    /\ au_pc = "analyze"
    /\ \E records \in SeqsUpTo(AU_Records, MaxLogRecords) :
          LET stats == AU_Totals(AU_Accumulate(AU_empty_stats(au_log_files),
                                               records, au_user_pattern))
          IN /\ au_records' = records
             /\ au_sampled' = stats
             /\ au_stats' = AU_Scale(stats, au_log_files, au_sample_files)
    /\ au_pc' = "done"
    /\ UNCHANGED <<au_user_pattern, au_log_files, au_sample_files>>

AU_Next ==
    \/ AU_ListLogFiles
    \/ AU_AnalyzeFiles

SpecAnalyzer == AU_Init /\ [][AU_Next]_vars /\ WF_vars(AU_Next)

\* The requests of the users of by_user, summed
RECURSIVE C16_UserRequests(_, _)
C16_UserRequests(by_user, users) ==
    IF users = {} THEN 0
    ELSE LET u == CHOOSE u \in users : TRUE
         IN by_user[u].requests + C16_UserRequests(by_user, users \ {u})

\* C16: when analyze_usage sampled, every total returned is the sampled
\* total times len(log_files) / len(sample_files), and the statistics
\* returned agree with each other: total_tokens = total_input_tokens +
\* total_output_tokens, total_requests = chat count + inline count, and the
\* requests of by_user add up to total_requests.
C16_ScaledTotalsConsistent ==
    (au_pc = "done" /\ au_sample_files < au_log_files) =>
        /\ au_stats.total_requests * au_sample_files
               <= au_sampled.total_requests * au_log_files
        /\ au_sampled.total_requests * au_log_files
               < (au_stats.total_requests + 1) * au_sample_files
        /\ au_stats.total_tokens * au_sample_files
               <= au_sampled.total_tokens * au_log_files
        /\ au_sampled.total_tokens * au_log_files
               < (au_stats.total_tokens + 1) * au_sample_files
        /\ au_stats.total_tokens =
               au_stats.total_input_tokens + au_stats.total_output_tokens
        /\ au_stats.total_requests =
               au_stats.by_type["chat"].count + au_stats.by_type["inline"].count
        /\ C16_UserRequests(au_stats.by_user, DOMAIN au_stats.by_user)
               = au_stats.total_requests
====
